---- MODULE Spec2Model ----
(***************************************************************************)
(* Usbmux client (tagged request/response dispatch, connect handoff,       *)
(* close), the lockdown service (automatic TLS upgrade, sendAndReceive,    *)
(* startCoreDeviceProxy), the HTTP/2 + XPC Handshake, the binary plist    *)
(* creator, muxer socket discovery (getDefaultSocket) and connect's port   *)
(* byte swap of appium-ios-remotexpc, as state machines.                   *)
(***************************************************************************)
EXTENDS Integers, Sequences, FiniteSets, TLC

\* ------------------------------------------------------------------ bounds
\* Number of requests one Usbmux client issues.
MaxReq == 2
\* Number of sendAndReceive calls an outside caller makes on one LockdownService.
MaxCalls == 2
\* Number of sendRequest calls made on one Handshake from outside perform.
MaxSends == 2
\* Longest array or dictionary among the enumerated small containers.
MaxItems == 2
\* Elements of the one large array (more than 255 objects).
ManyItems == 256
\* Length of the one long ASCII string (records of 248 to 255 bytes in all).
LongLen == 247
\* Length of the one Buffer whose count needs a four-byte integer header.
HugeLen == 65536
\* Calls of DiagnosticsService operations on one service object.
MaxOps == 2

\* --------------------------------------------------------- program constants
USBMUX_RESULT_OK == 0
USBMUX_RESULT_BADCOMMAND == 1
USBMUX_RESULT_BADDEV == 2
USBMUX_RESULT_CONNREFUSED == 3

VARIABLES
    \* Usbmux
    _tag,                \* Usbmux._tag: the next request tag
    _responseCallbacks,  \* Usbmux._responseCallbacks: tag -> the request whose closure is registered
    reqs,                \* the requests issued, in order: [op, tag] as handed to _sendPlist
    promise,             \* per request, its receivePromise: state, value, the tag of the response
                         \* that settled it and, for connect, the fields of it the callback read
    settled,             \* the requests in the order their promises settled
    timers,              \* the requests whose setTimeout is armed
    socket,              \* the muxer socket: "open", "ended" (end() called), "destroyed"
    pipes,               \* the stream pipes in place: <<source, destination>>
    splitterShutdown,    \* LengthBasedSplitter.shutdown() has been called
    dropped,             \* the tag of the last message _handleData found no callback for, if any
    failure,             \* the failure the transport has met: "none", "socket", "codec"
    \* LockdownService
    autoSecure,          \* the constructor's autoSecure argument
    viaFactory,          \* the service is built by createLockdownServiceByUDID
    pairRecord,          \* what usbmux.readPairRecord yields: [kind, fields]
    upPc,                \* where tryUpgradeToTLS is
    upResult,            \* how tryUpgradeToTLS ended: "none", "returned", "threw"
    _tlsUpgrade,         \* LockdownService._tlsUpgrade: "undefined", "pending", "resolved", "rejected"
    _isTLS,              \* LockdownService._isTLS
    _plistAfterTLS,      \* LockdownService._plistAfterTLS is set
    sessionOK,           \* a StartSession has succeeded on this connection
    sslAsked,            \* startSession returned enableSessionSSL = true
    tlsFailed,           \* upgradeSocketToTLS rejected
    awaiting,            \* the sendAndReceive calls awaiting their reply: [who, req, via]
    writes,              \* the requests written, in order: [who, req, via, sess, ssl, failed]
    factory,             \* createLockdownServiceByUDID: "none", "awaiting", "returned", "threw"
    proxyPc,             \* startCoreDeviceProxy: "idle", "awaitUpgrade", "awaitReply", "failed", "noPort", "connecting"
    calls,               \* sendAndReceive calls the outside caller has made
    closed,              \* LockdownService.close() has run
    muxClients,          \* the Usbmux client each function created: "none", "open", "closed",
                         \* "handedOff" (connect resolved with its socket)
    sess,                \* startSession: the reply it got and what it returned or threw
    handshake,           \* upgradeSocketToTLS on the lockdown socket: "none", "started",
                         \* "completed", "failed"
    closes,              \* the close() calls, in order: [via, isTLS]
    proxyLog,            \* what startCoreDeviceProxy has done, in order
    proxyRecord,         \* the pair record startCoreDeviceProxy read
    \* Handshake
    nextMessageId,       \* Handshake.nextMessageId: channel -> next message id
    hsPc,                \* perform: 0 not called, k the step whose write it awaits, 10 returned
    hsFailed,            \* perform rejected (at step hsPc)
    hsWrites,            \* the socket.write calls, in order: [by, frame, after]
    inFlight,            \* the indices of hsWrites whose callback has not run
    sends,               \* sendRequest calls made from outside perform
    \* BinaryPlistCreator
    bpValue,             \* the root object given to createBinaryPlist
    bpOut,               \* the BinaryPlistCreator: its fields, create's locals and,
                         \* once create has returned, the buffer
    coPc,                \* where _collectObjects is: "idle", "new", "walking", "collected"
    coStack,             \* the calls of _collectObjectsRecursive in progress: for each,
                         \* the values its loop has still to visit (innermost last)
    coTable,             \* this._objectTable while it is being collected
    coLoops,             \* the containers whose loop has been entered, in order
    \* getDefaultSocket
    skOpts,              \* the opts argument: the given option names -> their values
    skEnv,               \* process.env.USBMUXD_SOCKET_ADDRESS: [set, value]
    skExists,            \* the paths fs.access succeeds on
    skPlatform,          \* "darwin", "linux", "wsl" (linux with a microsoft release), "win32"
    skPc,                \* getDefaultSocket: "idle", "called", "connecting", "resolved",
                         \* "rejected", "timedOut", "threw"
    skSocket,            \* what net.createConnection was given: [kind, path, host, port]
    \* Usbmux.connect's Connect message
    port,                \* the port argument of connect
    sent,                \* the PortNumber values written
    \* DiagnosticsService
    dgCalls,             \* the operations called: [op, pc, conn, result]
    dgConns,             \* the connections ServiceConnection.createUsingTCP has opened
    dgLog                \* for each connection, what was sent and received on it, in
                         \* order: [call, dir, what]

muxVars == <<_tag, _responseCallbacks, reqs, promise, settled, timers, socket, pipes,
             splitterShutdown, dropped, failure>>
ldMore == <<muxClients, sess, handshake, closes, proxyLog, proxyRecord>>
ldVars == <<autoSecure, viaFactory, pairRecord, upPc, upResult, _tlsUpgrade, _isTLS,
            _plistAfterTLS, sessionOK, sslAsked, tlsFailed, awaiting, writes, factory,
            proxyPc, calls, closed, ldMore>>
hsVars == <<nextMessageId, hsPc, hsFailed, hsWrites, inFlight, sends>>
bpVars == <<bpValue, bpOut, coPc, coStack, coTable, coLoops>>
skVars == <<skOpts, skEnv, skExists, skPlatform, skPc, skSocket, port, sent>>
dgVars == <<dgCalls, dgConns, dgLog>>
vars == <<muxVars, ldVars, hsVars, bpVars, skVars, dgVars>>

\* ================================================================== Usbmux

Ops == {"readBUID", "readPairRecord", "listDevices", "connect"}
Tags == 0 .. (MaxReq - 1)

\* A decoded payload: the fields the response callbacks read.
Payload(mt, hn, n, buid, dl, prd) ==
    [MessageType |-> mt, hasNumber |-> hn, Number |-> n, BUID |-> buid,
     DeviceList |-> dl, PairRecordData |-> prd]

\* The payloads the muxer (or, after a handoff, garbage from the device) may carry.
Payloads ==
    { Payload("Result", TRUE, USBMUX_RESULT_OK, FALSE, FALSE, "absent"),
      Payload("Result", TRUE, USBMUX_RESULT_BADDEV, FALSE, FALSE, "absent"),
      Payload("Result", TRUE, USBMUX_RESULT_CONNREFUSED, FALSE, FALSE, "absent"),
      Payload("Result", FALSE, 0, FALSE, FALSE, "absent"),
      Payload("Attached", TRUE, USBMUX_RESULT_OK, FALSE, FALSE, "absent"),
      Payload("none", FALSE, 0, TRUE, FALSE, "absent"),
      Payload("none", FALSE, 0, FALSE, TRUE, "absent"),
      Payload("none", FALSE, 0, FALSE, FALSE, "valid"),
      Payload("none", FALSE, 0, FALSE, FALSE, "garbage") }

\* What a response callback yields: a returned value or a thrown error.
Return(kind) == [threw |-> FALSE, kind |-> kind, hasCode |-> FALSE, code |-> 0]
Throw(kind) == [threw |-> TRUE, kind |-> kind, hasCode |-> FALSE, code |-> 0]
ThrowCode(kind, p) == [threw |-> TRUE, kind |-> kind, hasCode |-> p.hasNumber, code |-> p.Number]

readBUIDCallback(p) ==
    IF p.BUID THEN Return("BUID") ELSE Throw("unexpected")

readPairRecordCallback(p) ==
    IF p.PairRecordData = "absent" THEN Return("null")
    ELSE IF p.PairRecordData = "valid" THEN Return("pairRecord")
    ELSE Throw("parse")

listDevicesCallback_lenient(p) == Return("DeviceList")

listDevicesCallback(p) ==
    IF p.DeviceList THEN Return("DeviceList") ELSE Throw("unexpected")

connectCallback_anyResult(p) ==
    IF p.MessageType # "Result" THEN Throw("unexpected")
    ELSE IF ~(p.hasNumber /\ p.Number = USBMUX_RESULT_BADDEV) THEN Return("socket")
    ELSE ThrowCode("failed", p)

connectCallback(p) ==
    IF p.MessageType # "Result" THEN Throw("unexpected")
    ELSE IF p.hasNumber /\ p.Number = USBMUX_RESULT_OK THEN Return("socket")
    ELSE IF p.hasNumber /\ p.Number = USBMUX_RESULT_CONNREFUSED THEN Throw("refused")
    ELSE ThrowCode("failed", p)

responseCallback(op, p) ==
    CASE op = "readBUID" -> readBUIDCallback(p)
      [] op = "readPairRecord" -> readPairRecordCallback(p)
      [] op = "listDevices" -> listDevicesCallback(p)
      [] op = "connect" -> connectCallback(p)

Timeout == [threw |-> TRUE, kind |-> "timeout", hasCode |-> FALSE, code |-> 0]
NoPayload == Payload("none", FALSE, 0, FALSE, FALSE, "absent")
Pending ==
    [state |-> "pending", byResp |-> FALSE, respTag |-> 0, resp |-> NoPayload,
     value |-> Return("none")]

\* The keys of a callback map without k (delete map[k]).
\* A variant that leaves the entry in place.
Delete_keeps(map, k) == map
Delete(map, k) == [t \in (DOMAIN map) \ {k} |-> map[t]]

\* Promise semantics: the first resolve or reject settles, later ones do nothing.
\* The fields of payload p that the response callback of op reads.
Read(op, p) ==
    IF op = "connect"
    THEN Payload(p.MessageType, p.hasNumber, p.Number, FALSE, FALSE, "absent")
    ELSE NoPayload

Settle(r, res, byResp, data) ==
    IF promise[r].state = "pending"
    THEN [promise EXCEPT ![r] = [state |-> IF res.threw THEN "rejected" ELSE "resolved",
                                 byResp |-> byResp, respTag |-> data.tag,
                                 resp |-> Read(reqs[r].op, data.payload),
                                 value |-> res]]
    ELSE promise

SettleOrder(r) ==
    IF promise[r].state = "pending" THEN Append(settled, r) ELSE settled

\* Socket data reaches the decoder through the pipes in place.
DecoderFed ==
    \/ <<"socket", "decoder">> \in pipes
    \/ /\ <<"socket", "splitter">> \in pipes
       /\ <<"splitter", "decoder">> \in pipes
       /\ ~splitterShutdown

\* connect has resolved with the raw socket.
HandedOff ==
    \E r \in DOMAIN reqs :
        reqs[r].op = "connect" /\ promise[r].state = "resolved"

InitMux ==
    /\ _tag = 0
    /\ _responseCallbacks = << >>
    /\ reqs = << >>
    /\ promise = << >>
    /\ settled = << >>
    /\ timers = {}
    /\ socket = "open"
    /\ pipes = {<<"socket", "decoder">>, <<"encoder", "socket">>}
    /\ splitterShutdown = FALSE
    /\ dropped = {}
    /\ failure = "none"

\* tag = this._tag++ : the tag a new request takes.
NextTag_outstanding == Cardinality(DOMAIN _responseCallbacks)

NextTag == _tag

\* _receivePlistPromise followed by _sendPlist: one request of operation op.
Request(op) ==
    /\ Len(reqs) < MaxReq
    /\ socket = "open"
    /\ LET tag == NextTag
           r == Len(reqs) + 1
       IN /\ _tag' = tag + 1
          /\ _responseCallbacks' =
                [t \in (DOMAIN _responseCallbacks) \cup {tag} |->
                    IF t = tag THEN r ELSE _responseCallbacks[t]]
          /\ timers' = timers \cup {r}
          /\ promise' = Append(promise, Pending)
          /\ reqs' = Append(reqs, [op |-> op, tag |-> tag])
    /\ UNCHANGED <<settled, socket, pipes, splitterShutdown, dropped, failure>>
    /\ UNCHANGED <<ldVars, hsVars, bpVars, skVars, dgVars>>

readBUID == Request("readBUID")

readPairRecord == Request("readPairRecord")

listDevices == Request("listDevices")

connect == Request("connect")

\* The closure _receivePlistPromise registered for request r, called with data.
Callback(r, data) ==
    LET res == responseCallback(reqs[r].op, data.payload)
        ok == reqs[r].op = "connect" /\ ~res.threw
    IN /\ timers' = timers \ {r}
       /\ promise' = Settle(r, res, TRUE, data)
       /\ settled' = SettleOrder(r)
       /\ _responseCallbacks' = Delete(_responseCallbacks, reqs[r].tag)
       /\ splitterShutdown' = (splitterShutdown \/ ok)
       /\ pipes' = IF ok
                   THEN pipes \ {<<"socket", "splitter">>, <<"splitter", "decoder">>}
                   ELSE pipes
       /\ UNCHANGED dropped

\* The callback map's key _handleData looks up for data.
LookupKey_first(data) ==
    IF DOMAIN _responseCallbacks = {} THEN data.tag
    ELSE CHOOSE t \in DOMAIN _responseCallbacks :
            \A u \in DOMAIN _responseCallbacks : t <= u

LookupKey(data) == data.tag

_handleData(data) ==
    LET k == LookupKey(data) IN
    IF k \in DOMAIN _responseCallbacks
    THEN Callback(_responseCallbacks[k], data)
    ELSE /\ dropped' = {data.tag}
         /\ UNCHANGED <<_responseCallbacks, promise, settled, timers, splitterShutdown,
                        pipes>>

\* The socket emits data that the decoder turns into a message.
socketData ==
    /\ socket # "destroyed"
    /\ DecoderFed
    /\ \E t \in {u \in Tags : u < _tag}, p \in Payloads :
          _handleData([tag |-> t, payload |-> p])
    /\ UNCHANGED <<_tag, reqs, socket, failure>>
    /\ UNCHANGED <<ldVars, hsVars, bpVars, skVars, dgVars>>

\* The decoder emits a message whose tag no request has taken (its payload is
\* not read).
socketDataUnknownTag ==
    /\ socket # "destroyed"
    /\ DecoderFed
    /\ \E t \in {u \in Tags : u >= _tag} :
          _handleData([tag |-> t, payload |-> NoPayload])
    /\ UNCHANGED <<_tag, reqs, socket, failure>>
    /\ UNCHANGED <<ldVars, hsVars, bpVars, skVars, dgVars>>

\* What the timer handler does to the waiter of request r.
TimeoutRemoves_all(r) == DOMAIN _responseCallbacks

TimeoutRemoves(r) == {reqs[r].tag}

\* The setTimeout handler of request r runs.
timeoutFires ==
    \E r \in timers :
        /\ timers' = timers \ {r}
        /\ IF reqs[r].tag \in DOMAIN _responseCallbacks
           THEN /\ _responseCallbacks' =
                      [t \in (DOMAIN _responseCallbacks) \ TimeoutRemoves(r) |->
                          _responseCallbacks[t]]
                /\ promise' = Settle(r, Timeout, FALSE, [tag |-> 0, payload |-> NoPayload])
                /\ settled' = SettleOrder(r)
           ELSE UNCHANGED <<_responseCallbacks, promise, settled>>
        /\ UNCHANGED <<_tag, reqs, socket, pipes, splitterShutdown, dropped, failure>>
        /\ UNCHANGED <<ldVars, hsVars, bpVars, skVars, dgVars>>

\* Usbmux.close(): end the socket, and destroy it once ended.
close ==
    /\ socket = "open"
    /\ socket' = "ended"
    /\ UNCHANGED <<_tag, _responseCallbacks, reqs, promise, settled, timers, pipes,
                   splitterShutdown, dropped, failure>>
    /\ UNCHANGED <<ldVars, hsVars, bpVars, skVars, dgVars>>

closeEnded ==
    /\ socket = "ended"
    /\ socket' = "destroyed"
    /\ UNCHANGED <<_tag, _responseCallbacks, reqs, promise, settled, timers, pipes,
                   splitterShutdown, dropped, failure>>
    /\ UNCHANGED <<ldVars, hsVars, bpVars, skVars, dgVars>>

\* The socket emits 'error': Node destroys it; the handler of
\* _assignClientFailureHandlers re-emits the error on the encoder.
clientError ==
    /\ socket # "destroyed"
    /\ failure = "none"
    /\ failure' = "socket"
    /\ socket' = "destroyed"
    /\ UNCHANGED <<_tag, _responseCallbacks, reqs, promise, settled, timers, pipes,
                   splitterShutdown, dropped>>
    /\ UNCHANGED <<ldVars, hsVars, bpVars, skVars, dgVars>>

\* The decoder emits 'error' on bytes it cannot decode: the pipe from the socket
\* unpipes it; Usbmux listens to the decoder's 'data' only.
decoderError ==
    /\ socket # "destroyed"
    /\ DecoderFed
    /\ failure = "none"
    /\ failure' = "codec"
    /\ pipes' = pipes \ {<<"socket", "decoder">>}
    /\ UNCHANGED <<_tag, _responseCallbacks, reqs, promise, settled, timers, socket,
                   splitterShutdown, dropped>>
    /\ UNCHANGED <<ldVars, hsVars, bpVars, skVars, dgVars>>

NextMux ==
    \/ readBUID
    \/ readPairRecord
    \/ listDevices
    \/ connect
    \/ socketData
    \/ socketDataUnknownTag
    \/ timeoutFires
    \/ close
    \/ closeEnded
    \/ clientError
    \/ decoderError

\* ========================================================= LockdownService

Fields == {"HostCertificate", "HostPrivateKey", "HostID", "SystemBUID"}

\* What usbmux.readPairRecord yields in getPairRecord: an error, null, or a record
\* holding some of the four fields.
PairRecords ==
    {[kind |-> "error", fields |-> {}], [kind |-> "null", fields |-> {}]}
    \cup {[kind |-> "record", fields |-> f] : f \in SUBSET Fields}

\* getPairRecord: throws unless the record has certificate and key.
getPairRecordThrows(rec) ==
    \/ rec.kind # "record"
    \/ "HostCertificate" \notin rec.fields
    \/ "HostPrivateKey" \notin rec.fields

\* tryUpgradeToTLS's own check of the record getPairRecord returned.
MissingInfo(rec) ==
    \/ rec.kind # "record"
    \/ "HostCertificate" \notin rec.fields
    \/ "HostPrivateKey" \notin rec.fields
    \/ "HostID" \notin rec.fields
    \/ "SystemBUID" \notin rec.fields

\* The transport sendAndReceive dispatches on.
ActiveVia_plain == "plain"

ActiveVia == IF _isTLS /\ _plistAfterTLS THEN "tls" ELSE "plain"

getSocket == IF _isTLS /\ _plistAfterTLS THEN "tls" ELSE "plain"

\* PlistService.sendPlistAndReceive: write the request, then await the reply.
sendPlistAndReceive(who, req, via) ==
    /\ writes' = Append(writes, [who |-> who, req |-> req, via |-> via,
                                 sess |-> sessionOK, ssl |-> sslAsked,
                                 failed |-> tlsFailed, isTLS |-> _isTLS])
    /\ awaiting' = awaiting \cup {[who |-> who, req |-> req, via |-> via]}

sendAndReceive(who, req) == sendPlistAndReceive(who, req, ActiveVia)

\* LockdownService.close(): close the TLS service if there is one, else the base one.
LockdownClose ==
    /\ closed' = TRUE
    /\ closes' = Append(closes, [via |-> ActiveVia, isTLS |-> _isTLS])

\* The constructor's .catch on tryUpgradeToTLS(): what _tlsUpgrade settles to.
AutoUpgradeSettled_nocatch(threw) == IF threw THEN "rejected" ELSE "resolved"

AutoUpgradeSettled(threw) == "resolved"

\* tryUpgradeToTLS ends, by return or by throw.
UpgradeEnds(threw) ==
    /\ upPc' = "done"
    /\ upResult' = IF threw THEN "threw" ELSE "returned"
    /\ _tlsUpgrade' = IF _tlsUpgrade = "pending" THEN AutoUpgradeSettled(threw)
                      ELSE _tlsUpgrade

\* The replies a device gives to StartSession (or none in time).
SessionReplies ==
    {[arrived |-> FALSE, Request |-> "none", SessionID |-> "absent",
      EnableSessionSSL |-> "absent"]}
    \cup {[arrived |-> TRUE, Request |-> r, SessionID |-> i, EnableSessionSSL |-> e] :
            r \in {"StartSession", "GetValue"},
            i \in {"absent", "empty", "id"},
            e \in {"absent", "false", "true"}}

\* Truthiness of a reply field: absent, '' and false are falsy.
Boolean(v) == v \notin {"absent", "empty", "false"}

NoSession == [state |-> "none", reply |-> CHOOSE r \in SessionReplies : ~r.arrived,
              sessionID |-> "absent", enableSessionSSL |-> FALSE]

\* startSession after its sendAndReceive: what it returns or throws for reply res.
startSessionResult_anyRequest(res) ==
    IF ~res.arrived
    THEN [state |-> "timeout", reply |-> res, sessionID |-> "absent",
          enableSessionSSL |-> FALSE]
    ELSE IF Boolean(res.SessionID)
    THEN [state |-> "returned", reply |-> res, sessionID |-> res.SessionID,
          enableSessionSSL |-> Boolean(res.EnableSessionSSL)]
    ELSE [state |-> "threw", reply |-> res, sessionID |-> "absent",
          enableSessionSSL |-> FALSE]

startSessionResult(res) ==
    IF ~res.arrived
    THEN [state |-> "timeout", reply |-> res, sessionID |-> "absent",
          enableSessionSSL |-> FALSE]
    ELSE IF res.Request = "StartSession" /\ Boolean(res.SessionID)
    THEN [state |-> "returned", reply |-> res, sessionID |-> res.SessionID,
          enableSessionSSL |-> Boolean(res.EnableSessionSSL)]
    ELSE [state |-> "threw", reply |-> res, sessionID |-> "absent",
          enableSessionSSL |-> FALSE]

NoRecord == [kind |-> "null", fields |-> {}]

InitLd ==
    /\ autoSecure \in BOOLEAN
    /\ viaFactory \in BOOLEAN
    /\ pairRecord \in PairRecords
    /\ upPc = IF viaFactory THEN "unbuilt"
              ELSE IF autoSecure THEN "getPairRecord" ELSE "idle"
    /\ upResult = "none"
    /\ _tlsUpgrade = IF ~viaFactory /\ autoSecure THEN "pending" ELSE "undefined"
    /\ _isTLS = FALSE
    /\ _plistAfterTLS = FALSE
    /\ sessionOK = FALSE
    /\ sslAsked = FALSE
    /\ tlsFailed = FALSE
    /\ awaiting = {}
    /\ writes = << >>
    /\ factory = IF viaFactory THEN "listing" ELSE "none"
    /\ proxyPc = "idle"
    /\ calls = 0
    /\ closed = FALSE
    /\ muxClients = [getPairRecord |-> IF ~viaFactory /\ autoSecure THEN "open" ELSE "none",
                     factory |-> IF viaFactory THEN "open" ELSE "none",
                     proxy |-> "none"]
    /\ sess = NoSession
    /\ handshake = "none"
    /\ closes = << >>
    /\ proxyLog = << >>
    /\ proxyRecord = NoRecord

\* The caller holds the service: at once when it built it, else once the factory returned.
HasService == viaFactory => factory = "returned"

\* The outside caller is one logical task: it makes no call while one of its own
\* calls awaits its reply.
CallerIdle == \A a \in awaiting : a.who = "upgrade"

\* createLockdownServiceByUDID: listDevices settles and the Usbmux client is closed;
\* then either a throw (listing failed, no device, UDID not found, connectAndRelay
\* failed) or the LockdownService is constructed on the relayed socket.
factoryListDevices ==
    \E found \in BOOLEAN :
        /\ factory = "listing"
        /\ muxClients' = [muxClients EXCEPT
                             !.factory = "closed",
                             !.getPairRecord = IF found /\ autoSecure THEN "open" ELSE @]
        /\ IF found
           THEN /\ factory' = IF autoSecure THEN "awaiting" ELSE "returned"
                /\ upPc' = IF autoSecure THEN "getPairRecord" ELSE "idle"
                /\ _tlsUpgrade' = IF autoSecure THEN "pending" ELSE "undefined"
           ELSE /\ factory' = "noService"
                /\ UNCHANGED <<upPc, _tlsUpgrade>>
        /\ UNCHANGED <<autoSecure, viaFactory, pairRecord, upResult, _isTLS,
                       _plistAfterTLS, sessionOK, sslAsked, tlsFailed, awaiting, writes,
                       proxyPc, calls, closed>>
        /\ UNCHANGED <<sess, handshake, closes, proxyLog, proxyRecord>>
        /\ UNCHANGED <<muxVars, hsVars, bpVars, skVars, dgVars>>

\* A caller calls tryUpgradeToTLS itself on a service built with autoSecure = false:
\* getPairRecord creates its Usbmux client and asks for the record.
tryUpgradeToTLS ==
    /\ upPc = "idle"
    /\ HasService
    /\ ~closed
    /\ upPc' = "getPairRecord"
    /\ muxClients' = [muxClients EXCEPT !.getPairRecord = "open"]
    /\ UNCHANGED <<autoSecure, viaFactory, pairRecord, upResult, _tlsUpgrade, _isTLS,
                   _plistAfterTLS, sessionOK, sslAsked, tlsFailed, awaiting, writes,
                   factory, proxyPc, calls, closed>>
    /\ UNCHANGED <<sess, handshake, closes, proxyLog, proxyRecord>>
    /\ UNCHANGED <<muxVars, hsVars, bpVars, skVars, dgVars>>

\* getPairRecord settles (its finally has closed the Usbmux client);
\* tryUpgradeToTLS checks the record and calls startSession.
getPairRecord ==
    /\ upPc = "getPairRecord"
    /\ muxClients' = [muxClients EXCEPT !.getPairRecord = "closed"]
    /\ IF getPairRecordThrows(pairRecord)
       THEN UpgradeEnds(TRUE) /\ UNCHANGED <<writes, awaiting>>
       ELSE IF MissingInfo(pairRecord)
       THEN UpgradeEnds(FALSE) /\ UNCHANGED <<writes, awaiting>>
       ELSE /\ sendAndReceive("upgrade", "StartSession")
            /\ upPc' = "startSession"
            /\ UNCHANGED <<upResult, _tlsUpgrade>>
    /\ UNCHANGED <<autoSecure, viaFactory, pairRecord, _isTLS, _plistAfterTLS,
                   sessionOK, sslAsked, tlsFailed, factory, proxyPc, calls, closed>>
    /\ UNCHANGED <<sess, handshake, closes, proxyLog, proxyRecord>>
    /\ UNCHANGED <<muxVars, hsVars, bpVars, skVars, dgVars>>

\* startSession's await ends; on enableSessionSSL the TLS handshake starts on
\* getSocket().
startSession ==
    \E res \in SessionReplies, a \in awaiting :
        /\ upPc = "startSession"
        /\ a.who = "upgrade"
        /\ awaiting' = awaiting \ {a}
        /\ sess' = startSessionResult(res)
        /\ IF startSessionResult(res).state # "returned"
           THEN UpgradeEnds(TRUE) /\ UNCHANGED <<sessionOK, sslAsked, handshake>>
           ELSE /\ sessionOK' = TRUE
                /\ IF ~startSessionResult(res).enableSessionSSL
                   THEN UpgradeEnds(FALSE) /\ UNCHANGED <<sslAsked, handshake>>
                   ELSE /\ sslAsked' = TRUE
                        /\ handshake' = "started"
                        /\ upPc' = "tlsHandshake"
                        /\ UNCHANGED <<upResult, _tlsUpgrade>>
        /\ UNCHANGED <<autoSecure, viaFactory, pairRecord, _isTLS, _plistAfterTLS,
                       tlsFailed, writes, factory, proxyPc, calls, closed>>
        /\ UNCHANGED <<muxClients, closes, proxyLog, proxyRecord>>
        /\ UNCHANGED <<muxVars, hsVars, bpVars, skVars, dgVars>>

\* upgradeSocketToTLS settles: the handshake completed, or an error rejected it.
upgradeSocketToTLS ==
    \E ok \in BOOLEAN :
        /\ upPc = "tlsHandshake"
        /\ IF ok
           THEN /\ _plistAfterTLS' = TRUE
                /\ _isTLS' = TRUE
                /\ handshake' = "completed"
                /\ UpgradeEnds(FALSE)
                /\ UNCHANGED tlsFailed
           ELSE /\ tlsFailed' = TRUE
                /\ handshake' = "failed"
                /\ UpgradeEnds(TRUE)
                /\ UNCHANGED <<_isTLS, _plistAfterTLS>>
        /\ UNCHANGED <<autoSecure, viaFactory, pairRecord, sessionOK, sslAsked,
                       awaiting, writes, factory, proxyPc, calls, closed>>
        /\ UNCHANGED <<muxClients, sess, closes, proxyLog, proxyRecord>>
        /\ UNCHANGED <<muxVars, hsVars, bpVars, skVars, dgVars>>

\* createLockdownServiceByUDID: await service._tlsUpgrade, then return the service.
createLockdownServiceByUDID ==
    /\ factory = "awaiting"
    /\ _tlsUpgrade \in {"resolved", "rejected"}
    /\ factory' = IF _tlsUpgrade = "resolved" THEN "returned" ELSE "threw"
    /\ UNCHANGED <<autoSecure, viaFactory, pairRecord, upPc, upResult, _tlsUpgrade,
                   _isTLS, _plistAfterTLS, sessionOK, sslAsked, tlsFailed, awaiting,
                   writes, proxyPc, calls, closed>>
    /\ UNCHANGED ldMore
    /\ UNCHANGED <<muxVars, hsVars, bpVars, skVars, dgVars>>

\* An outside caller calls sendAndReceive on the service.
callerSendAndReceive ==
    /\ HasService
    /\ CallerIdle
    /\ proxyPc \in {"idle", "failed", "noPort", "connecting"}
    /\ ~closed
    /\ calls < MaxCalls
    /\ calls' = calls + 1
    /\ sendAndReceive("caller", "GetValue")
    /\ UNCHANGED <<autoSecure, viaFactory, pairRecord, upPc, upResult, _tlsUpgrade,
                   _isTLS, _plistAfterTLS, sessionOK, sslAsked, tlsFailed, factory,
                   proxyPc, closed>>
    /\ UNCHANGED ldMore
    /\ UNCHANGED <<muxVars, hsVars, bpVars, skVars, dgVars>>

\* A caller's sendAndReceive settles, by its reply or by its timeout.
callerReply ==
    \E a \in awaiting :
        /\ a.who = "caller"
        /\ awaiting' = awaiting \ {a}
        /\ UNCHANGED <<autoSecure, viaFactory, pairRecord, upPc, upResult, _tlsUpgrade,
                       _isTLS, _plistAfterTLS, sessionOK, sslAsked, tlsFailed, writes,
                       factory, proxyPc, calls, closed>>
        /\ UNCHANGED ldMore
        /\ UNCHANGED <<muxVars, hsVars, bpVars, skVars, dgVars>>

\* An outside caller calls close() on the service.
callerClose ==
    /\ HasService
    /\ CallerIdle
    /\ proxyPc \in {"idle", "failed"}
    /\ ~closed
    /\ LockdownClose
    /\ UNCHANGED <<autoSecure, viaFactory, pairRecord, upPc, upResult, _tlsUpgrade,
                   _isTLS, _plistAfterTLS, sessionOK, sslAsked, tlsFailed, awaiting,
                   writes, factory, proxyPc, calls>>
    /\ UNCHANGED <<muxClients, sess, handshake, proxyLog, proxyRecord>>
    /\ UNCHANGED <<muxVars, hsVars, bpVars, skVars, dgVars>>

\* startCoreDeviceProxy is called: it awaits _tlsUpgrade when there is one.
startCoreDeviceProxy ==
    /\ proxyPc = "idle"
    /\ HasService
    /\ CallerIdle
    /\ ~closed
    /\ IF _tlsUpgrade # "undefined"
       THEN /\ proxyPc' = "awaitUpgrade"
            /\ proxyLog' = Append(proxyLog, "awaitUpgrade")
            /\ UNCHANGED <<writes, awaiting>>
       ELSE /\ proxyPc' = "awaitReply"
            /\ proxyLog' = Append(proxyLog, "StartService")
            /\ sendAndReceive("proxy", "StartService")
    /\ UNCHANGED <<autoSecure, viaFactory, pairRecord, upPc, upResult, _tlsUpgrade,
                   _isTLS, _plistAfterTLS, sessionOK, sslAsked, tlsFailed, factory,
                   calls, closed>>
    /\ UNCHANGED <<muxClients, sess, handshake, closes, proxyRecord>>
    /\ UNCHANGED <<muxVars, hsVars, bpVars, skVars, dgVars>>

\* The awaited _tlsUpgrade has settled: startCoreDeviceProxy sends StartService.
proxyStartService ==
    /\ proxyPc = "awaitUpgrade"
    /\ _tlsUpgrade \in {"resolved", "rejected"}
    /\ IF _tlsUpgrade = "rejected"
       THEN /\ proxyPc' = "failed"
            /\ proxyLog' = Append(proxyLog, "throw")
            /\ UNCHANGED <<writes, awaiting>>
       ELSE /\ proxyPc' = "awaitReply"
            /\ proxyLog' = Append(proxyLog, "StartService")
            /\ sendAndReceive("proxy", "StartService")
    /\ UNCHANGED <<autoSecure, viaFactory, pairRecord, upPc, upResult, _tlsUpgrade,
                   _isTLS, _plistAfterTLS, sessionOK, sslAsked, tlsFailed, factory,
                   calls, closed>>
    /\ UNCHANGED <<muxClients, sess, handshake, closes, proxyRecord>>
    /\ UNCHANGED <<muxVars, hsVars, bpVars, skVars, dgVars>>

\* The replies a device gives to StartService (or none in time).
ServiceReplies == {"port", "noport", "timeout"}

\* Where startCoreDeviceProxy goes once the StartService await has ended.
proxyAfterReply_ignoresPort(rep) ==
    IF rep = "timeout" THEN "failed" ELSE "connecting"

proxyAfterReply(rep) ==
    CASE rep = "timeout" -> "failed"
      [] rep = "noport" -> "noPort"
      [] rep = "port" -> "connecting"

\* The StartService await ends: close the lockdown client, then look at the Port;
\* with a Port, createUsbmux is called.
proxyReply ==
    \E rep \in ServiceReplies, a \in awaiting :
        /\ proxyPc = "awaitReply"
        /\ a.who = "proxy"
        /\ awaiting' = awaiting \ {a}
        /\ IF rep = "timeout"
           THEN UNCHANGED <<closed, closes>>
           ELSE LockdownClose
        /\ proxyPc' = proxyAfterReply(rep)
        /\ proxyLog' = proxyLog \o
                        (IF rep = "timeout" THEN << >>
                         ELSE <<IF rep = "port" THEN "Port" ELSE "noPort", "close">>) \o
                        (IF proxyAfterReply(rep) = "connecting" THEN <<"createUsbmux">>
                         ELSE <<"throw">>)
        /\ UNCHANGED <<autoSecure, viaFactory, pairRecord, upPc, upResult, _tlsUpgrade,
                       _isTLS, _plistAfterTLS, sessionOK, sslAsked, tlsFailed, writes,
                       factory, calls>>
        /\ UNCHANGED <<muxClients, sess, handshake, proxyRecord>>
        /\ UNCHANGED <<muxVars, hsVars, bpVars, skVars, dgVars>>

\* createUsbmux settles: with a client, readPairRecord(udid) is sent on it.
proxyCreateUsbmux ==
    \E ok \in BOOLEAN :
        /\ proxyPc = "connecting"
        /\ IF ok
           THEN /\ muxClients' = [muxClients EXCEPT !.proxy = "open"]
                /\ proxyPc' = "readPairRecord"
                /\ proxyLog' = Append(proxyLog, "readPairRecord")
           ELSE /\ proxyPc' = "failed"
                /\ proxyLog' = Append(proxyLog, "throw")
                /\ UNCHANGED muxClients
        /\ UNCHANGED <<autoSecure, viaFactory, pairRecord, upPc, upResult, _tlsUpgrade,
                       _isTLS, _plistAfterTLS, sessionOK, sslAsked, tlsFailed, awaiting,
                       writes, factory, calls, closed>>
        /\ UNCHANGED <<sess, handshake, closes, proxyRecord>>
        /\ UNCHANGED <<muxVars, hsVars, bpVars, skVars, dgVars>>

\* readPairRecord settles: a throw, a record without certificate or key (throw),
\* or usbmux.connect(deviceID, response.Port) is sent.
proxyReadPairRecord ==
    \E rec \in PairRecords :
        /\ proxyPc = "readPairRecord"
        /\ proxyRecord' = rec
        /\ IF \/ rec.kind # "record"
              \/ "HostCertificate" \notin rec.fields
              \/ "HostPrivateKey" \notin rec.fields
           THEN /\ proxyPc' = "failed"
                /\ proxyLog' = Append(proxyLog, "throw")
           ELSE /\ proxyPc' = "muxConnect"
                /\ proxyLog' = Append(proxyLog, "connect")
        /\ UNCHANGED <<autoSecure, viaFactory, pairRecord, upPc, upResult, _tlsUpgrade,
                       _isTLS, _plistAfterTLS, sessionOK, sslAsked, tlsFailed, awaiting,
                       writes, factory, calls, closed>>
        /\ UNCHANGED <<muxClients, sess, handshake, closes>>
        /\ UNCHANGED <<muxVars, hsVars, bpVars, skVars, dgVars>>

\* usbmux.connect settles: with the device socket, upgradeSocketToTLS starts on it
\* with the record's certificate and key.
proxyConnect ==
    \E ok \in BOOLEAN :
        /\ proxyPc = "muxConnect"
        /\ IF ok
           THEN /\ muxClients' = [muxClients EXCEPT !.proxy = "handedOff"]
                /\ proxyPc' = "tlsHandshake"
                /\ proxyLog' = Append(proxyLog, "upgradeSocketToTLS")
           ELSE /\ proxyPc' = "failed"
                /\ proxyLog' = Append(proxyLog, "throw")
                /\ UNCHANGED muxClients
        /\ UNCHANGED <<autoSecure, viaFactory, pairRecord, upPc, upResult, _tlsUpgrade,
                       _isTLS, _plistAfterTLS, sessionOK, sslAsked, tlsFailed, awaiting,
                       writes, factory, calls, closed>>
        /\ UNCHANGED <<sess, handshake, closes, proxyRecord>>
        /\ UNCHANGED <<muxVars, hsVars, bpVars, skVars, dgVars>>

\* The handshake on the device socket settles: return {socket, plistService}, or throw.
proxyUpgradeSocketToTLS ==
    \E ok \in BOOLEAN :
        /\ proxyPc = "tlsHandshake"
        /\ proxyPc' = IF ok THEN "returned" ELSE "failed"
        /\ proxyLog' = Append(proxyLog, IF ok THEN "return" ELSE "throw")
        /\ UNCHANGED <<autoSecure, viaFactory, pairRecord, upPc, upResult, _tlsUpgrade,
                       _isTLS, _plistAfterTLS, sessionOK, sslAsked, tlsFailed, awaiting,
                       writes, factory, calls, closed>>
        /\ UNCHANGED <<muxClients, sess, handshake, closes, proxyRecord>>
        /\ UNCHANGED <<muxVars, hsVars, bpVars, skVars, dgVars>>

NextLd ==
    \/ factoryListDevices
    \/ tryUpgradeToTLS
    \/ getPairRecord
    \/ startSession
    \/ upgradeSocketToTLS
    \/ createLockdownServiceByUDID
    \/ callerSendAndReceive
    \/ callerReply
    \/ callerClose
    \/ startCoreDeviceProxy
    \/ proxyStartService
    \/ proxyReply
    \/ proxyCreateUsbmux
    \/ proxyReadPairRecord
    \/ proxyConnect
    \/ proxyUpgradeSocketToTLS

\* =============================================================== Handshake

\* Constants.js (Http2Constants, XpcConstants).
ROOT_CHANNEL == 1
REPLY_CHANNEL == 3
XPC_FLAGS_ALWAYS_SET == 1
XPC_FLAGS_INIT_HANDSHAKE == 4194304
HTTP2_MAGIC == [kind |-> "MAGIC"]

Channels == {ROOT_CHANNEL, REPLY_CHANNEL}

\* The | operator on non-negative integers.
RECURSIVE BitOr(_, _)
BitOr(a, b) ==
    IF a = 0 THEN b
    ELSE IF b = 0 THEN a
    ELSE (IF a % 2 = 1 \/ b % 2 = 1 THEN 1 ELSE 0) + 2 * BitOr(a \div 2, b \div 2)

\* HandshakeFrames.js: a frame is what its constructor is given.
SettingsFrame(stream, settings, flags) ==
    [kind |-> "SETTINGS", stream |-> stream, settings |-> settings, flags |-> flags]
WindowUpdateFrame(stream, increment) ==
    [kind |-> "WINDOW_UPDATE", stream |-> stream, increment |-> increment]
HeadersFrame(stream, block, flags) ==
    [kind |-> "HEADERS", stream |-> stream, block |-> block, flags |-> flags]
DataFrame(stream, message, flags) ==
    [kind |-> "DATA", stream |-> stream, message |-> message, flags |-> flags]
XPCMessage(flags, id, body) ==
    [flags |-> flags, id |-> id, body |-> body]

\* sendRequest: the message it builds from the counters and the caller's data.
RequestMessage(ids, data) ==
    XPCMessage(XPC_FLAGS_ALWAYS_SET, ids[ROOT_CHANNEL], data)

AfterSendRequest_increments(ids) ==
    [ids EXCEPT ![ROOT_CHANNEL] = @ + 1]

\* sendRequest: the counters once its frame is written (it leaves them alone).
AfterSendRequest(ids) ==
    ids

PerformFrame_reordered(k, ids) ==
    CASE k = 1 -> HTTP2_MAGIC
      [] k = 2 -> SettingsFrame(0, {<<"MAX_CONCURRENT_STREAMS", 100>>,
                                    <<"INITIAL_WINDOW_SIZE", 1048576>>}, {})
      [] k = 3 -> WindowUpdateFrame(0, 983041)
      [] k = 4 -> HeadersFrame(ROOT_CHANNEL, "", {"END_HEADERS"})
      [] k = 5 -> DataFrame(ROOT_CHANNEL, XPCMessage(513, 0, "null"), {})
      [] k = 6 -> DataFrame(ROOT_CHANNEL, RequestMessage(ids, "{}"), {})
      [] k = 7 -> HeadersFrame(REPLY_CHANNEL, "", {"END_HEADERS"})
      [] k = 8 -> DataFrame(REPLY_CHANNEL,
                            XPCMessage(BitOr(XPC_FLAGS_ALWAYS_SET, XPC_FLAGS_INIT_HANDSHAKE),
                                       0, "null"), {})
      [] k = 9 -> SettingsFrame(0, {}, {"ACK"})

\* perform: the frame step k writes.
PerformFrame(k, ids) ==
    CASE k = 1 -> HTTP2_MAGIC
      [] k = 2 -> SettingsFrame(0, {<<"MAX_CONCURRENT_STREAMS", 100>>,
                                    <<"INITIAL_WINDOW_SIZE", 1048576>>}, {})
      [] k = 3 -> WindowUpdateFrame(0, 983041)
      [] k = 4 -> HeadersFrame(ROOT_CHANNEL, "", {"END_HEADERS"})
      [] k = 5 -> DataFrame(ROOT_CHANNEL, RequestMessage(ids, "{}"), {})
      [] k = 6 -> DataFrame(ROOT_CHANNEL, XPCMessage(513, 0, "null"), {})
      [] k = 7 -> HeadersFrame(REPLY_CHANNEL, "", {"END_HEADERS"})
      [] k = 8 -> DataFrame(REPLY_CHANNEL,
                            XPCMessage(BitOr(XPC_FLAGS_ALWAYS_SET, XPC_FLAGS_INIT_HANDSHAKE),
                                       0, "null"), {})
      [] k = 9 -> SettingsFrame(0, {}, {"ACK"})

\* A variant that advances a counter when the write before its DATA frame has
\* completed, not that of the DATA frame itself.
AfterStep_beforeWrite(k, ids) ==
    CASE k = 5 -> [ids EXCEPT ![ROOT_CHANNEL] = @ + 1]
      [] k = 7 -> [ids EXCEPT ![REPLY_CHANNEL] = @ + 1]
      [] OTHER -> ids

\* perform: the counters once step k's write has completed.
AfterStep(k, ids) ==
    CASE k = 5 -> AfterSendRequest(ids)
      [] k = 6 -> [ids EXCEPT ![ROOT_CHANNEL] = @ + 1]
      [] k = 8 -> [ids EXCEPT ![REPLY_CHANNEL] = @ + 1]
      [] OTHER -> ids

\* Handshake.constructor.
InitHs ==
    /\ nextMessageId = [c \in Channels |-> 0]
    /\ hsPc = 0
    /\ hsFailed = FALSE
    /\ hsWrites = <<>>
    /\ inFlight = {}
    /\ sends = 0

\* this._socket.write(frame, callback): the write is issued, its callback is due.
SocketWrite(by, frame) ==
    /\ hsWrites' = Append(hsWrites, [by |-> by, frame |-> frame, after |-> hsPc = 10])
    /\ inFlight' = inFlight \cup {Len(hsWrites) + 1}

\* perform is called: step 1 writes the preface.
perform ==
    /\ hsPc = 0
    /\ hsPc' = 1
    /\ SocketWrite("perform", PerformFrame(1, nextMessageId))
    /\ UNCHANGED <<nextMessageId, hsFailed, sends>>
    /\ UNCHANGED <<muxVars, ldVars, bpVars, skVars, dgVars>>

\* The callback of the write perform awaits: on an error perform rejects, and
\* otherwise it runs on to its next write, or returns after step 9.
performContinues ==
    /\ hsPc \in 1..9
    /\ ~hsFailed
    /\ \E i \in inFlight, err \in BOOLEAN :
        /\ hsWrites[i].by = "perform"
        /\ IF err
           THEN /\ hsFailed' = TRUE
                /\ inFlight' = inFlight \ {i}
                /\ UNCHANGED <<nextMessageId, hsPc, hsWrites>>
           ELSE /\ nextMessageId' = AfterStep(hsPc, nextMessageId)
                /\ hsPc' = hsPc + 1
                /\ hsFailed' = FALSE
                /\ IF hsPc < 9
                   THEN /\ hsWrites' = Append(hsWrites,
                                [by |-> "perform",
                                 frame |-> PerformFrame(hsPc + 1, nextMessageId'),
                                 after |-> FALSE])
                        /\ inFlight' = (inFlight \ {i}) \cup {Len(hsWrites) + 1}
                   ELSE /\ hsWrites' = hsWrites
                        /\ inFlight' = inFlight \ {i}
    /\ UNCHANGED sends
    /\ UNCHANGED <<muxVars, ldVars, bpVars, skVars, dgVars>>

\* sendRequest called from outside perform.
sendRequest ==
    /\ sends < MaxSends
    /\ sends' = sends + 1
    /\ SocketWrite("caller", DataFrame(ROOT_CHANNEL, RequestMessage(nextMessageId, "data"), {}))
    /\ UNCHANGED <<nextMessageId, hsPc, hsFailed>>
    /\ UNCHANGED <<muxVars, ldVars, bpVars, skVars, dgVars>>

\* The callback of a write an outside sendRequest awaits: sendRequest returns or rejects.
sendRequestSettles ==
    /\ \E i \in inFlight, err \in BOOLEAN :
        /\ hsWrites[i].by = "caller"
        /\ inFlight' = inFlight \ {i}
        /\ nextMessageId' = IF err THEN nextMessageId ELSE AfterSendRequest(nextMessageId)
    /\ UNCHANGED <<hsPc, hsFailed, hsWrites, sends>>
    /\ UNCHANGED <<muxVars, ldVars, bpVars, skVars, dgVars>>

NextHs ==
    \/ perform
    \/ performContinues
    \/ sendRequest
    \/ sendRequestSettles

\* ====================================================== BinaryPlistCreator

\* constants.js.
BPLIST_MAGIC_AND_VERSION == <<98, 112, 108, 105, 115, 116, 48, 48>>
BPLIST_TRAILER_SIZE == 32
BPLIST_TYPE_NULL == 0
BPLIST_TYPE_FALSE == 8
BPLIST_TYPE_TRUE == 9
BPLIST_TYPE_INT == 16
BPLIST_TYPE_DATA == 64
BPLIST_TYPE_STRING_ASCII == 80
BPLIST_TYPE_STRING_UNICODE == 96
BPLIST_TYPE_ARRAY == 160
BPLIST_TYPE_DICT == 208

\* A PlistValue.  Primitives are their value; an array, a dictionary or a
\* Buffer is a reference into the heap of the input, so that two equal
\* containers are still two objects and one container can occur twice.
\* A number outside the 32-bit range, and a bigint, is given by the four
\* 16-bit limbs of its 64-bit two's complement, most significant first.
Null == [t |-> "null"]
Bool(b) == [t |-> "bool", b |-> b]
Num(n) == [t |-> "number", n |-> n]
Wide(limbs) == [t |-> "wide", limbs |-> limbs]
Big(limbs) == [t |-> "bigint", limbs |-> limbs]
Str(units) == [t |-> "string", units |-> units]
Ref(a) == [t |-> "ref", a |-> a]
Arr(items) == [t |-> "array", items |-> items]
Dict(keys, vals) == [t |-> "dict", keys |-> keys, vals |-> vals]
Data(bytes) == [t |-> "data", bytes |-> bytes]
Input(root, heap) == [root |-> root, heap |-> heap]

\* Buffer.concat of seqs[lo..hi]
RECURSIVE ConcatRange(_, _, _)
ConcatRange(seqs, lo, hi) ==
    IF lo > hi THEN <<>>
    ELSE IF lo = hi THEN seqs[lo]
    ELSE ConcatRange(seqs, lo, (lo + hi) \div 2) \o ConcatRange(seqs, ((lo + hi) \div 2) + 1, hi)
Concat(seqs) == ConcatRange(seqs, 1, Len(seqs))

\* Buffer.writeUIntBE / writeBigUInt64BE: value in size bytes, high byte first.
RECURSIVE BE(_, _)
BE(value, size) ==
    IF size = 0 THEN <<>> ELSE Append(BE(value \div 256, size - 1), value % 256)

\* Buffer.writeInt8 / writeInt16BE / writeInt32BE: two's complement.
writeInt8(value) == BE((value + 256) % 256, 1)
writeInt16BE(value) == BE((value + 65536) % 65536, 2)
writeInt32BE(value) ==
    IF value >= 0 THEN BE(value, 4)
    ELSE LET u == (value + 2147483647) + 1
         IN  <<128 + (u \div 16777216)>> \o BE(u % 16777216, 3)
\* Buffer.writeBigInt64BE of a value given by its limbs.
writeBigInt64BE(limbs) == Concat([i \in 1..4 |-> BE(limbs[i], 2)])

\* Map.has / Map.get: SameValueZero on primitives, identity on objects.
SameValueZero(x, y) == x.t = y.t /\ x = y
\* A variant that finds containers only.
Has_containersOnly(table, value) ==
    value.t = "ref" /\ \E i \in 1..Len(table) : SameValueZero(table[i], value)
Has(table, value) == \E i \in 1..Len(table) : SameValueZero(table[i], value)
\* this._objectRefMap.get(value) ?? 0: a value is in the table at most once.
RefOf(table, value) ==
    IF Has(table, value)
    THEN (CHOOSE i \in 1..Len(table) : SameValueZero(table[i], value)) - 1
    ELSE 0

IsArray(value, heap) == value.t = "ref" /\ heap[value.a].t = "array"
IsDict(value, heap) == value.t = "ref" /\ heap[value.a].t = "dict"
IsBuffer(value, heap) == value.t = "ref" /\ heap[value.a].t = "data"

\* Object.keys(dict): the keys that are array indices (a canonical decimal
\* string of a number up to 2^32 - 2) in ascending numeric order, then the
\* other keys in the order they were added.  d.keys and d.vals are in the
\* order the entries were added.
IndexLess(a, b) ==
    \/ Len(a) < Len(b)
    \/ /\ Len(a) = Len(b)
       /\ \E k \in 1..Len(a) : a[k] < b[k] /\ \A j \in 1..(k - 1) : a[j] = b[j]
\* "4294967295", the first number that is not an array index
NotAnIndex == <<52, 50, 57, 52, 57, 54, 55, 50, 57, 53>>
IsArrayIndex(units) ==
    /\ Len(units) >= 1
    /\ \A i \in 1..Len(units) : units[i] \in 48..57
    /\ Len(units) > 1 => units[1] # 48
    /\ IndexLess(units, NotAnIndex)
\* The place in Object.keys of the entry added i-th.
KeyRank(d, i) ==
    LET n == Len(d.keys)
        indices == {j \in 1..n : IsArrayIndex(d.keys[j].units)}
    IN  IF i \in indices
        THEN 1 + Cardinality({j \in indices : IndexLess(d.keys[j].units, d.keys[i].units)})
        ELSE 1 + Cardinality(indices) + Cardinality({j \in (1..n) \ indices : j < i})
\* A variant that lists every key in the order it was added.
ObjectKeys_asAdded(d) == [r \in 1..Len(d.keys) |-> r]
\* The entries (by the place they were added at) in the order of Object.keys.
ObjectKeys(d) ==
    [r \in 1..Len(d.keys) |-> CHOOSE i \in 1..Len(d.keys) : KeyRank(d, i) = r]
OwnKeys(d) == [r \in 1..Len(d.keys) |-> d.keys[ObjectKeys(d)[r]]]
OwnValues(d) == [r \in 1..Len(d.keys) |-> d.vals[ObjectKeys(d)[r]]]

\* A variant that takes each value before its key.
KeysAndValues_valueFirst(d) ==
    [i \in 1..(2 * Len(d.keys)) |->
        IF i % 2 = 1 THEN OwnValues(d)[(i + 1) \div 2] ELSE OwnKeys(d)[i \div 2]]
\* The keys and values of a dictionary in the order the traversal takes them.
KeysAndValues(d) ==
    [i \in 1..(2 * Len(d.keys)) |->
        IF i % 2 = 1 THEN OwnKeys(d)[(i + 1) \div 2] ELSE OwnValues(d)[i \div 2]]

\* _collectObjectsRecursive on a value, and on items[lo..hi] one after the other
\* (the loops over an array's items and over a dictionary's keys and values).
RECURSIVE _collectObjectsRecursive(_, _, _)
RECURSIVE CollectRange(_, _, _, _, _)
CollectEach(items, heap, table) == CollectRange(items, 1, Len(items), heap, table)
_collectObjectsRecursive(value, heap, table) ==
    IF Has(table, value) THEN table
    ELSE LET pushed == Append(table, value)
         IN  IF IsArray(value, heap)
                 THEN CollectEach(heap[value.a].items, heap, pushed)
             ELSE IF IsDict(value, heap)
                 THEN CollectEach(KeysAndValues(heap[value.a]), heap, pushed)
             ELSE pushed
CollectRange(items, lo, hi, heap, table) ==
    IF lo > hi THEN table
    ELSE IF lo = hi THEN _collectObjectsRecursive(items[lo], heap, table)
    ELSE LET mid == (lo + hi) \div 2
             left == CollectRange(items, lo, mid, heap, table)
         IN  IF Len(left) > 0 THEN CollectRange(items, mid + 1, hi, heap, left) ELSE left

\* this._objectTable after _collectObjects.
_objectTable(in) == _collectObjectsRecursive(in.root, in.heap, <<>>)

\* Every value the model holds is below 4294967296, the bound of the 4-byte case.
_calculateMinByteSize(value) ==
    IF value < 256 THEN 1
    ELSE IF value < 65536 THEN 2
    ELSE 4

_objectRefSize_one(table) == 1

\* this._objectRefSize after _collectObjects.
_objectRefSize(table) == _calculateMinByteSize(Len(table) - 1)

_writeOffsetToBuffer(value, size) == BE(value, size)

_createNullData == <<BPLIST_TYPE_NULL>>
_createBooleanData(value) == <<IF value.b THEN BPLIST_TYPE_TRUE ELSE BPLIST_TYPE_FALSE>>

_createIntegerData(value) ==
    IF value.t = "bigint" THEN <<BitOr(BPLIST_TYPE_INT, 3)>> \o writeBigInt64BE(value.limbs)
    ELSE IF value.t = "wide" THEN <<BitOr(BPLIST_TYPE_INT, 3)>> \o writeBigInt64BE(value.limbs)
    ELSE IF value.n >= 0 /\ value.n <= 255
        THEN <<BitOr(BPLIST_TYPE_INT, 0)>> \o BE(value.n, 1)
    ELSE IF value.n >= -128 /\ value.n <= 127
        THEN <<BitOr(BPLIST_TYPE_INT, 0)>> \o writeInt8(value.n)
    ELSE IF value.n >= -32768 /\ value.n <= 32767
        THEN <<BitOr(BPLIST_TYPE_INT, 1)>> \o writeInt16BE(value.n)
    ELSE <<BitOr(BPLIST_TYPE_INT, 2)>> \o writeInt32BE(value.n)

_createIntHeader(value) ==
    IF value < 256 THEN <<BitOr(BPLIST_TYPE_INT, 0)>> \o BE(value, 1)
    ELSE IF value < 65536 THEN <<BitOr(BPLIST_TYPE_INT, 1)>> \o BE(value, 2)
    ELSE <<BitOr(BPLIST_TYPE_INT, 2)>> \o BE(value, 4)

\* The tag byte and, from 15 up, the integer header carrying the length.
\* A variant that keeps a count of 15 in the nibble.
LengthHeader_inclusive(type, length) ==
    IF length <= 15 THEN <<BitOr(type, length)>>
    ELSE <<BitOr(type, 15)>> \o _createIntHeader(length)
LengthHeader(type, length) ==
    IF length < 15 THEN <<BitOr(type, length)>>
    ELSE <<BitOr(type, 15)>> \o _createIntHeader(length)

_createBufferData(value, heap) ==
    LengthHeader(BPLIST_TYPE_DATA, Len(heap[value.a].bytes)) \o heap[value.a].bytes

\* /^[\x00-\x7F]*$/.test(value)
isAscii(value) == \A i \in 1..Len(value.units) : value.units[i] <= 127
\* Buffer.from(value, 'ascii') and Buffer.from(value, 'utf16le')
AsciiBytes(units) == [i \in 1..Len(units) |-> units[i] % 256]
Utf16leBytes(units) ==
    [i \in 1..(2 * Len(units)) |->
        IF i % 2 = 1 THEN units[(i + 1) \div 2] % 256 ELSE units[i \div 2] \div 256]

_createStringData(value) ==
    LET stringBuffer == IF isAscii(value) THEN AsciiBytes(value.units)
                        ELSE Utf16leBytes(value.units)
        length == IF isAscii(value) THEN Len(value.units) ELSE Len(stringBuffer) \div 2
    IN  LengthHeader(IF isAscii(value) THEN BPLIST_TYPE_STRING_ASCII
                     ELSE BPLIST_TYPE_STRING_UNICODE, length) \o stringBuffer

\* The references to the given elements, each refSize bytes wide.
RefBuffer(items, table, refSize) ==
    Concat([i \in 1..Len(items) |-> _writeOffsetToBuffer(RefOf(table, items[i]), refSize)])

_createArrayData(value, heap, table, refSize) ==
    LengthHeader(BPLIST_TYPE_ARRAY, Len(heap[value.a].items))
        \o RefBuffer(heap[value.a].items, table, refSize)

_createDictionaryData(value, heap, table, refSize) ==
    LengthHeader(BPLIST_TYPE_DICT, Len(heap[value.a].keys))
        \o RefBuffer(OwnKeys(heap[value.a]), table, refSize)
        \o RefBuffer(OwnValues(heap[value.a]), table, refSize)

_createObjectData(value, heap, table, refSize) ==
    IF value.t = "null" THEN _createNullData
    ELSE IF value.t = "bool" THEN _createBooleanData(value)
    ELSE IF value.t \in {"bigint", "number", "wide"} THEN _createIntegerData(value)
    ELSE IF IsBuffer(value, heap) THEN _createBufferData(value, heap)
    ELSE IF value.t = "string" THEN _createStringData(value)
    ELSE IF IsArray(value, heap) THEN _createArrayData(value, heap, table, refSize)
    ELSE IF IsDict(value, heap) THEN _createDictionaryData(value, heap, table, refSize)
    ELSE <<BPLIST_TYPE_NULL>>

\* create: the object records, in object-table order.
objectData(table, heap, refSize) ==
    [i \in 1..Len(table) |-> _createObjectData(table[i], heap, table, refSize)]

_calculateObjectDataLength(buffers) == Len(Concat(buffers))

\* create: the offset pushed for object i is the length of the records before it.
objectOffsets(data) ==
    [i \in 1..Len(data) |-> _calculateObjectDataLength(SubSeq(data, 1, i - 1))]

_createOffsetTable(offsets, offsetSize) ==
    Concat([i \in 1..Len(offsets) |-> _writeOffsetToBuffer(offsets[i], offsetSize)])

_createTrailer(offsetSize, refSize, numObjects, tableOffset) ==
    [i \in 1..6 |-> 0]
        \o <<offsetSize, refSize>>
        \o BE(numObjects, 8)
        \o BE(0, 8)
        \o BE(tableOffset, 8)

\* The creator once create() has run: its fields, create's locals and the buffer.
BinaryPlistCreator(in) ==
    LET table == _objectTable(in)
        refSize == _objectRefSize(table)
        data == objectData(table, in.heap, refSize)
        offsets == objectOffsets(data)
        maxOffset == _calculateObjectDataLength(data)
        offsetSize == _calculateMinByteSize(maxOffset)
        offsetTable == _createOffsetTable(offsets, offsetSize)
        offsetTableOffset == Len(BPLIST_MAGIC_AND_VERSION) + _calculateObjectDataLength(data)
        trailer == _createTrailer(offsetSize, refSize, Len(table), offsetTableOffset)
    IN  [done |-> TRUE,
         _objectTable |-> table,
         _objectRefSize |-> refSize,
         objectData |-> data,
         objectOffsets |-> offsets,
         _offsetSize |-> offsetSize,
         buffer |-> BPLIST_MAGIC_AND_VERSION \o Concat(data) \o offsetTable \o trailer]

create(in) == BinaryPlistCreator(in).buffer

\* ------------------------------------------------------------ the inputs
Ascii(n) == [i \in 1..n |-> 97]

IntSamples ==
    {0, 1, 127, 128, 200, 255, 256, -1, -56, -128, -129, 32767, 32768, -32768, -32769,
     65535, 65536, 2147483647, (-2147483647) - 1}
\* 2^31 and -2^31 - 1 as numbers
WideSamples == {<<0, 0, 32768, 0>>, <<65535, 65535, 32767, 65535>>}
\* 1n, 200n, -1n and 2^63 - 1 as bigints
BigSamples == {<<0, 0, 0, 1>>, <<0, 0, 0, 200>>, <<65535, 65535, 65535, 65535>>,
               <<32767, 65535, 65535, 65535>>}
StringSamples ==
    {<<>>, <<97>>, <<98>>, <<97, 98>>, <<233>>, <<97, 20013>>, <<55357, 56832>>,
     <<256>>, <<127>>, <<128>>, Ascii(14), Ascii(15), [i \in 1..15 |-> 233], Ascii(LongLen)}

Leaves ==
    {Null, Bool(TRUE), Bool(FALSE)}
        \cup {Num(n) : n \in IntSamples}
        \cup {Wide(l) : l \in WideSamples}
        \cup {Big(l) : l \in BigSamples}
        \cup {Str(u) : u \in StringSamples}

SmallLeaves == {Null, Num(1), Str(<<97>>), Str(<<233>>)}
KeySamples == {Str(<<97>>), Str(<<98>>), Str(<<233>>)}

ArrayInputs ==
    UNION {{Input(Ref(1), <<Arr(items)>>) : items \in [1..k -> SmallLeaves]} : k \in 0..MaxItems}

DictInputs ==
    UNION {{Input(Ref(1), <<Dict(keys, vals)>>) :
                keys \in {ks \in [1..k -> KeySamples] :
                             \A i, j \in 1..k : ks[i] = ks[j] => i = j},
                vals \in [1..k -> SmallLeaves]} : k \in 0..MaxItems}

\* { "a": 1, "b": [true, null] }
ExampleInput ==
    Input(Ref(1), <<Dict(<<Str(<<97>>), Str(<<98>>)>>, <<Num(1), Ref(2)>>),
                    Arr(<<Bool(TRUE), Null>>)>>)

SpecialInputs ==
    {ExampleInput,
     \* an array of ManyItems different numbers
     Input(Ref(1), <<Arr([i \in 1..ManyItems |-> Num(i - 1)])>>),
     \* an array of 15 elements, a dictionary of 15 entries
     Input(Ref(1), <<Arr([i \in 1..15 |-> Num(i)])>>),
     Input(Ref(1), <<Dict([i \in 1..15 |-> Str(<<96 + i>>)], [i \in 1..15 |-> Num(i)])>>),
     \* one array twice in an array, beside an equal but different array
     Input(Ref(1), <<Arr(<<Ref(2), Ref(2), Ref(3)>>), Arr(<<Num(1)>>), Arr(<<Num(1)>>)>>),
     \* an array that contains itself, and one that does through a dictionary
     Input(Ref(1), <<Arr(<<Ref(1)>>)>>),
     Input(Ref(1), <<Arr(<<Num(1), Ref(2)>>), Dict(<<Str(<<97>>)>>, <<Ref(1)>>)>>),
     \* dictionaries with keys that are array indices: { b: 1, "2": 2, "1": 3 },
     \* { "10": 1, "9": 2 } and { "01": 1, "0": 2, a: 3 }
     Input(Ref(1), <<Dict(<<Str(<<98>>), Str(<<50>>), Str(<<49>>)>>, <<Num(1), Num(2), Num(3)>>)>>),
     Input(Ref(1), <<Dict(<<Str(<<49, 48>>), Str(<<57>>)>>, <<Num(1), Num(2)>>)>>),
     Input(Ref(1), <<Dict(<<Str(<<48, 49>>), Str(<<48>>), Str(<<97>>)>>,
                          <<Num(1), Num(2), Num(3)>>)>>),
     \* Buffers
     Input(Ref(1), <<Data(<<1, 2, 3>>)>>),
     Input(Ref(1), <<Arr(<<Ref(2), Ref(3)>>), Data(<<>>), Data([i \in 1..15 |-> i])>>),
     \* a Buffer of HugeLen bytes, a string of ManyItems characters
     Input(Ref(1), <<Data([i \in 1..HugeLen |-> i % 256])>>),
     Input(Str([i \in 1..ManyItems |-> 233]), <<>>),
     \* the long string beside other objects
     Input(Ref(1), <<Arr(<<Str(Ascii(LongLen)), Num(1)>>)>>),
     Input(Ref(1), <<Arr(<<Str(Ascii(LongLen)), Num(1), Num(256), Str(<<233>>)>>)>>),
     Input(Ref(1), <<Dict(<<Str(<<97>>), Str(<<98>>)>>, <<Ref(2), Str(<<97, 98>>)>>),
                     Dict(<<Str(<<98>>)>>, <<Num(-1)>>)>>)}

Inputs ==
    {Input(v, <<>>) : v \in Leaves} \cup ArrayInputs \cup DictInputs \cup SpecialInputs

\* new BinaryPlistCreator(obj), before create().
NotCreated ==
    [done |-> FALSE, _objectTable |-> <<>>, _objectRefSize |-> 0, objectData |-> <<>>,
     objectOffsets |-> <<>>, _offsetSize |-> 0, buffer |-> <<>>]

\* No traversal is being followed step by step.
CollectIdle ==
    /\ coPc = "idle"
    /\ coStack = <<>>
    /\ coTable = <<>>
    /\ coLoops = <<>>

InitBp ==
    /\ bpValue \in Inputs
    /\ bpOut = NotCreated
    /\ CollectIdle

\* createBinaryPlist(obj): new BinaryPlistCreator(obj).create()
createBinaryPlist ==
    /\ ~bpOut.done
    /\ bpOut' = BinaryPlistCreator(bpValue)
    /\ UNCHANGED <<bpValue, coPc, coStack, coTable, coLoops>>
    /\ UNCHANGED <<muxVars, ldVars, hsVars, skVars, dgVars>>

NextBp ==
    createBinaryPlist

\* ------------------------------------- _collectObjects, one call at a time

\* new BinaryPlistCreator(obj), create() about to call _collectObjects.
InitCollect ==
    /\ bpValue \in Inputs
    /\ bpOut = NotCreated
    /\ coPc = "new"
    /\ coStack = <<>>
    /\ coTable = <<>>
    /\ coLoops = <<>>

\* The stack once the innermost loop has taken its next value.
Taken(stack) == [stack EXCEPT ![Len(stack)] = Tail(stack[Len(stack)])]
HasNext(stack) == stack # <<>> /\ stack[Len(stack)] # <<>>
NextValue(stack) == Head(stack[Len(stack)])

\* _collectObjects calls _collectObjectsRecursive(this._rootObject).
_collectObjects ==
    /\ coPc = "new"
    /\ coPc' = "walking"
    /\ coStack' = << <<bpValue.root>> >>
    /\ UNCHANGED <<bpValue, bpOut, coTable, coLoops>>
    /\ UNCHANGED <<muxVars, ldVars, hsVars, skVars, dgVars>>

\* _collectObjectsRecursive(value) for a value already in the table: it returns.
collectSeen ==
    /\ coPc = "walking"
    /\ HasNext(coStack)
    /\ Has(coTable, NextValue(coStack))
    /\ coStack' = Taken(coStack)
    /\ UNCHANGED <<bpValue, bpOut, coPc, coTable, coLoops>>
    /\ UNCHANGED <<muxVars, ldVars, hsVars, skVars, dgVars>>

\* _collectObjectsRecursive(value) for a value not in the table: it is pushed
\* and, for an array or a dictionary, the loop over what it holds begins.
collectNew ==
    /\ coPc = "walking"
    /\ HasNext(coStack)
    /\ ~Has(coTable, NextValue(coStack))
    /\ LET value == NextValue(coStack)
       IN  /\ coTable' = Append(coTable, value)
           /\ IF IsArray(value, bpValue.heap)
                  THEN /\ coStack' = Append(Taken(coStack), bpValue.heap[value.a].items)
                       /\ coLoops' = Append(coLoops, value)
              ELSE IF IsDict(value, bpValue.heap)
                  THEN /\ coStack' = Append(Taken(coStack), KeysAndValues(bpValue.heap[value.a]))
                       /\ coLoops' = Append(coLoops, value)
              ELSE /\ coStack' = Taken(coStack)
                   /\ UNCHANGED coLoops
    /\ UNCHANGED <<bpValue, bpOut, coPc>>
    /\ UNCHANGED <<muxVars, ldVars, hsVars, skVars, dgVars>>

\* A loop has no value left: the call returns; the outermost call returns to
\* _collectObjects.
collectReturn ==
    /\ coPc = "walking"
    /\ coStack # <<>>
    /\ coStack[Len(coStack)] = <<>>
    /\ coStack' = SubSeq(coStack, 1, Len(coStack) - 1)
    /\ coPc' = IF Len(coStack) = 1 THEN "collected" ELSE "walking"
    /\ UNCHANGED <<bpValue, bpOut, coTable, coLoops>>
    /\ UNCHANGED <<muxVars, ldVars, hsVars, skVars, dgVars>>

NextCollect ==
    \/ _collectObjects
    \/ collectSeen
    \/ collectNew
    \/ collectReturn

\* ====================================================== DiagnosticsService

\* The Request of each operation.
DgOps == {"MobileGestalt", "Restart", "Shutdown", "Sleep", "IORegistry"}
RSDCheckin == "RSDCheckin"

\* What sendPlistRequest can resolve with for the check-in (the code logs it
\* and reads nothing of it) and for an operation's request.
CheckinReplies == {"checkedIn", "error"}
Responses == {"empty", "success", "deprecated", "failure"}

NoResult == [threw |-> FALSE, what |-> "none"]
Threw(what) == [threw |-> TRUE, what |-> what]
Returned(what) == [threw |-> FALSE, what |-> what]

\* What each operation makes of the response to its request.
OpResult(op, response) ==
    IF op = "MobileGestalt"
        THEN IF response = "empty" THEN Threw("Invalid response from MobileGestalt")
             ELSE IF response = "deprecated" THEN Threw("MobileGestalt deprecated")
             ELSE IF response # "success" THEN Threw("Failed to query MobileGestalt")
             ELSE Returned("MobileGestalt")
    ELSE IF op = "IORegistry"
        THEN IF response = "empty" THEN Threw("Invalid response from IORegistry")
             ELSE Returned("response")
    ELSE IF response = "empty" THEN Returned("{}")
    ELSE Returned("response[0]")

\* new DiagnosticsService(address)
InitDg ==
    /\ dgCalls = <<>>
    /\ dgConns = 0
    /\ dgLog = <<>>

Sent(k, what) == [call |-> k, dir |-> "sent", what |-> what]
Received(k, what) == [call |-> k, dir |-> "received", what |-> what]
\* The log once event e has happened on connection conn.
Logged(log, conn, e) == [log EXCEPT ![conn] = Append(@, e)]

\* An operation is called: it calls startLockdownService, which calls
\* startLockdownWithoutCheckin, which calls ServiceConnection.createUsingTCP.
DgCall(op) ==
    /\ Len(dgCalls) < MaxOps
    /\ dgCalls' = Append(dgCalls, [op |-> op, pc |-> "connecting", conn |-> 0,
                                   result |-> NoResult])
    /\ UNCHANGED <<dgConns, dgLog>>
    /\ UNCHANGED <<muxVars, ldVars, hsVars, bpVars, skVars>>

mobileGestalt == DgCall("MobileGestalt")
restart == DgCall("Restart")
shutdown == DgCall("Shutdown")
sleep == DgCall("Sleep")
ioregistry == DgCall("IORegistry")

\* createUsingTCP settles: on a connection startLockdownService sends the
\* check-in; a rejection goes through the operation's catch to its caller.
createUsingTCPSettles ==
    \E k \in DOMAIN dgCalls, ok \in BOOLEAN :
        /\ dgCalls[k].pc = "connecting"
        /\ IF ok
           THEN /\ dgConns' = dgConns + 1
                /\ dgCalls' = [dgCalls EXCEPT ![k].pc = "checkin", ![k].conn = dgConns + 1]
                /\ dgLog' = Append(dgLog, <<Sent(k, RSDCheckin)>>)
           ELSE /\ dgCalls' = [dgCalls EXCEPT ![k].pc = "done", ![k].result = Threw("connect")]
                /\ UNCHANGED <<dgConns, dgLog>>
        /\ UNCHANGED <<muxVars, ldVars, hsVars, bpVars, skVars>>

\* A variant that sends every operation's request on the first connection.
RequestConnection_first(k) == 1
\* conn.sendPlistRequest(request): the connection startLockdownService returned.
RequestConnection(k) == dgCalls[k].conn

\* The check-in's sendPlistRequest settles: with a reply, startLockdownService
\* returns the connection and the operation sends its request on it; a
\* rejection goes through the operation's catch to its caller.
checkinSettles ==
    \E k \in DOMAIN dgCalls :
        /\ dgCalls[k].pc = "checkin"
        /\ \/ \E reply \in CheckinReplies :
                /\ dgCalls' = [dgCalls EXCEPT ![k].pc = "request"]
                /\ dgLog' = Logged(Logged(dgLog, dgCalls[k].conn, Received(k, reply)),
                                   RequestConnection(k), Sent(k, dgCalls[k].op))
           \/ /\ dgCalls' = [dgCalls EXCEPT ![k].pc = "done", ![k].result = Threw("checkin")]
              /\ UNCHANGED dgLog
        /\ UNCHANGED dgConns
        /\ UNCHANGED <<muxVars, ldVars, hsVars, bpVars, skVars>>

\* The request's sendPlistRequest settles: the operation returns or throws.
requestSettles ==
    \E k \in DOMAIN dgCalls :
        /\ dgCalls[k].pc = "request"
        /\ \/ \E response \in Responses :
                /\ dgCalls' = [dgCalls EXCEPT ![k].pc = "done",
                                              ![k].result = OpResult(dgCalls[k].op, response)]
                /\ dgLog' = Logged(dgLog, RequestConnection(k), Received(k, response))
           \/ /\ dgCalls' = [dgCalls EXCEPT ![k].pc = "done", ![k].result = Threw("request")]
              /\ UNCHANGED dgLog
        /\ UNCHANGED dgConns
        /\ UNCHANGED <<muxVars, ldVars, hsVars, bpVars, skVars>>

NextDg ==
    \/ mobileGestalt
    \/ restart
    \/ shutdown
    \/ sleep
    \/ ioregistry
    \/ createUsingTCPSettles
    \/ checkinSettles
    \/ requestSettles

\* ======================================================== getDefaultSocket

\* Strings are sequences of characters.
USBMUXD_PORT == 27015
DEFAULT_USBMUXD_SOCKET ==
    <<"/", "v", "a", "r", "/", "r", "u", "n", "/", "u", "s", "b", "m", "u", "x", "d">>
DEFAULT_USBMUXD_HOST == <<"1", "2", "7", ".", "0", ".", "0", ".", "1">>

\* String.prototype.split(':').
RECURSIVE Split(_)
Split(s) ==
    IF \A i \in 1..Len(s) : s[i] # ":" THEN <<s>>
    ELSE LET i == CHOOSE k \in 1..Len(s) : s[k] = ":" /\ \A j \in 1..(k - 1) : s[j] # ":"
         IN <<SubSeq(s, 1, i - 1)>> \o Split(SubSeq(s, i + 1, Len(s)))

\* The i flag of /^(unix):/i.
Lower(c) ==
    CASE c = "U" -> "u" [] c = "N" -> "n" [] c = "I" -> "i" [] c = "X" -> "x"
      [] OTHER -> c

\* address.replace(/^(unix):/i, '').
StripUnix(s) ==
    IF Len(s) >= 5 /\ [i \in 1..5 |-> Lower(s[i])] = <<"u", "n", "i", "x", ":">>
    THEN SubSeq(s, 6, Len(s))
    ELSE s

Digits == <<"0", "1", "2", "3", "4", "5", "6", "7", "8", "9">>

IsDigit(c) == \E d \in 1..10 : Digits[d] = c

DigitValue(c) == (CHOOSE d \in 1..10 : Digits[d] = c) - 1

\* parseInt(s, 10) of a string that begins with a digit: its leading digits.
RECURSIVE ParseDigits(_, _)
ParseDigits(s, acc) ==
    IF Len(s) = 0 \/ ~IsDigit(s[1]) THEN acc
    ELSE ParseDigits(Tail(s), 10 * acc + DigitValue(s[1]))

parseInt(s) == ParseDigits(s, 0)

\* !opts.k: the option is absent or its value is falsy ('' or 0).
Falsy(opts, k) ==
    \/ k \notin DOMAIN opts
    \/ IF k = "socketPort" THEN opts[k] = 0 ELSE opts[k] = <<>>

\* The defaults object, after the environment variable has been looked at.
DefaultsFromEnv(opts, env) ==
    LET base == [socketPath |-> DEFAULT_USBMUXD_SOCKET,
                 socketPort |-> USBMUXD_PORT,
                 socketHost |-> DEFAULT_USBMUXD_HOST]
        address == StripUnix(env.value)
        parts == Split(address)
        ip == parts[1]
    IN  IF env.set /\ env.value # <<>>
        THEN IF ip # <<>> /\ Len(parts) >= 2 /\ parts[2] # <<>>
             THEN [base EXCEPT !.socketHost = ip, !.socketPort = parseInt(parts[2])]
             ELSE [base EXCEPT !.socketPath = address]
        ELSE base

Defaults(opts, env) ==
    IF /\ Falsy(opts, "socketPath")
       /\ Falsy(opts, "socketPort")
       /\ Falsy(opts, "socketHost")
    THEN DefaultsFromEnv(opts, env)
    ELSE DefaultsFromEnv(opts, [set |-> FALSE, value |-> <<>>])

NoSocket == [kind |-> "none", path |-> <<>>, host |-> <<>>, port |-> 0]

\* getDefaultSocket up to its promise: the socket it creates, or the throw.
CreateConnection(opts, env, exists, platform) ==
    LET o == opts @@ Defaults(opts, env)
    IN  IF o.socketPath \in exists
        THEN [kind |-> "unix", path |-> o.socketPath, host |-> <<>>, port |-> 0]
        ELSE IF platform \in {"win32", "wsl"}
        THEN [kind |-> "tcp", path |-> <<>>, host |-> o.socketHost, port |-> o.socketPort]
        ELSE [kind |-> "throw", path |-> o.socketPath, host |-> <<>>, port |-> 0]

\* The inputs.
CustomPath == <<"/", "t", "m", "p", "/", "m", "u", "x">>
EnvPath == <<"/", "e", "n", "v">>
RemoteHost == <<"m", "a", "c">>
RemotePort == <<"2", "7", "0", "1", "6">>
UnixPrefixes == {<<"u", "n", "i", "x", ":">>, <<"U", "N", "I", "X", ":">>}

Restrict(f, ks) == [k \in ks |-> f[k]]

OptsInputs ==
    {Restrict([socketPath |-> p, socketPort |-> n, socketHost |-> h], ks) :
        p \in {CustomPath, <<>>}, n \in {27017, 0}, h \in {RemoteHost},
        ks \in SUBSET {"socketPath", "socketPort", "socketHost"}}

EnvInputs ==
    {[set |-> FALSE, value |-> <<>>],
     [set |-> TRUE, value |-> EnvPath],
     [set |-> TRUE, value |-> RemoteHost \o <<":">> \o RemotePort],
     [set |-> TRUE, value |-> RemoteHost \o <<":">>]}
    \cup {[set |-> TRUE, value |-> u \o EnvPath] : u \in UnixPrefixes}

Platforms == {"darwin", "linux", "wsl", "win32"}

InitSk ==
    /\ skOpts \in OptsInputs
    /\ skEnv \in EnvInputs
    /\ skExists \in SUBSET {DEFAULT_USBMUXD_SOCKET, CustomPath, EnvPath}
    /\ skPlatform \in Platforms
    /\ skPc = "called"
    /\ skSocket = NoSocket
    /\ port = 0
    /\ sent = {}

\* No socket is being looked for, for the other specifications.
InitSkIdle ==
    /\ skOpts = << >>
    /\ skEnv = [set |-> FALSE, value |-> <<>>]
    /\ skExists = {DEFAULT_USBMUXD_SOCKET}
    /\ skPlatform = "darwin"
    /\ skPc = "idle"
    /\ skSocket = NoSocket
    /\ port = 0
    /\ sent = {}

\* getDefaultSocket runs to its promise, or throws.
getDefaultSocket ==
    /\ skPc = "called"
    /\ LET s == CreateConnection(skOpts, skEnv, skExists, skPlatform)
       IN  IF s.kind = "throw"
           THEN skPc' = "threw" /\ UNCHANGED skSocket
           ELSE skPc' = "connecting" /\ skSocket' = s
    /\ UNCHANGED <<skOpts, skEnv, skExists, skPlatform, port, sent>>
    /\ UNCHANGED <<muxVars, ldVars, hsVars, bpVars, dgVars>>

\* The socket's 'connect' event: the promise resolves with the socket.
socketConnect ==
    /\ skPc = "connecting"
    /\ skPc' = "resolved"
    /\ UNCHANGED <<skOpts, skEnv, skExists, skPlatform, skSocket, port, sent>>
    /\ UNCHANGED <<muxVars, ldVars, hsVars, bpVars, dgVars>>

\* The socket's 'error' event: the promise rejects with the error.
socketError ==
    /\ skPc = "connecting"
    /\ skPc' = "rejected"
    /\ UNCHANGED <<skOpts, skEnv, skExists, skPlatform, skSocket, port, sent>>
    /\ UNCHANGED <<muxVars, ldVars, hsVars, bpVars, dgVars>>

\* The connection timer fires first: the promise rejects with the timeout error.
connectTimeout ==
    /\ skPc = "connecting"
    /\ skPc' = "timedOut"
    /\ UNCHANGED <<skOpts, skEnv, skExists, skPlatform, skSocket, port, sent>>
    /\ UNCHANGED <<muxVars, ldVars, hsVars, bpVars, dgVars>>

NextSk ==
    \/ getDefaultSocket
    \/ socketConnect
    \/ socketError
    \/ connectTimeout

\* ========================================================= connect's port

\* The & operator on non-negative integers.
RECURSIVE BitAnd(_, _)
BitAnd(a, b) ==
    IF a = 0 \/ b = 0 THEN 0
    ELSE (IF a % 2 = 1 /\ b % 2 = 1 THEN 1 ELSE 0) + 2 * BitAnd(a \div 2, b \div 2)

\* The << and >> operators, on values that stay below 2^31.
ShiftLeft(a, n) == a * 2^n

ShiftRight(a, n) == a \div 2^n

byteSwap16_unmasked(value) == BitOr(ShiftLeft(value, 8), ShiftRight(value, 8))

byteSwap16(value) ==
    BitOr(ShiftLeft(BitAnd(value, 255), 8), BitAnd(ShiftRight(value, 8), 255))

\* The ports connect is called with.
Ports == 0..65535

InitPort ==
    /\ port \in Ports
    /\ sent = {}

\* Usbmux.connect writes the Connect message, PortNumber: byteSwap16(port).
connectPortNumber ==
    /\ sent = {}
    /\ sent' = {byteSwap16(port)}
    /\ UNCHANGED <<skOpts, skEnv, skExists, skPlatform, skPc, skSocket, port>>
    /\ UNCHANGED <<muxVars, ldVars, hsVars, bpVars, dgVars>>

NextPort == connectPortNumber

\* ========================================================== specifications

\* A lockdown service that takes no step, for the Usbmux specification.
InitLdIdle ==
    /\ InitLd
    /\ autoSecure = FALSE
    /\ viaFactory = FALSE
    /\ pairRecord = [kind |-> "null", fields |-> {}]

\* No plist is being created, for the other specifications.
InitBpIdle ==
    /\ bpValue = Input(Null, <<>>)
    /\ bpOut = NotCreated
    /\ CollectIdle

\* A Usbmux client after construction, beside an idle lockdown service.
InitSpecMux ==
    InitMux /\ InitDg /\ InitLdIdle /\ InitHs /\ InitBpIdle /\ InitSkIdle

\* A LockdownService after construction, beside a fresh Usbmux client.
InitSpecLockdown ==
    InitMux /\ InitDg /\ InitLd /\ InitHs /\ InitBpIdle /\ InitSkIdle

SpecMux == InitSpecMux /\ [][NextMux]_vars

SpecLockdown == InitSpecLockdown /\ [][NextLd]_vars

\* A Handshake after construction.
InitSpecHandshake ==
    InitMux /\ InitDg /\ InitLdIdle /\ InitHs /\ InitBpIdle /\ InitSkIdle

SpecHandshake == InitSpecHandshake /\ [][NextHs]_vars

\* createBinaryPlist about to be called on one of the inputs.
InitSpecBplist ==
    InitMux /\ InitDg /\ InitLdIdle /\ InitHs /\ InitBp /\ InitSkIdle

SpecBplist == InitSpecBplist /\ [][NextBp]_vars

\* The traversal alone, one call at a time; the code is synchronous, so a call
\* that can proceed does.
InitSpecCollect ==
    InitMux /\ InitDg /\ InitLdIdle /\ InitHs /\ InitCollect /\ InitSkIdle
SpecCollect == InitSpecCollect /\ [][NextCollect]_vars /\ WF_vars(NextCollect)

\* getDefaultSocket called with some options, environment, file system and platform.
InitSpecSocket ==
    InitMux /\ InitDg /\ InitLdIdle /\ InitHs /\ InitBpIdle /\ InitSk

SpecSocket == InitSpecSocket /\ [][NextSk]_vars

\* Usbmux.connect about to write its Connect message for some port.
InitSpecPort ==
    /\ InitMux /\ InitDg /\ InitLdIdle /\ InitHs /\ InitBpIdle
    /\ skOpts = << >>
    /\ skEnv = [set |-> FALSE, value |-> <<>>]
    /\ skExists = {DEFAULT_USBMUXD_SOCKET}
    /\ skPlatform = "darwin"
    /\ skPc = "idle"
    /\ skSocket = NoSocket
    /\ InitPort

SpecPort == InitSpecPort /\ [][NextPort]_vars

InitSpecDiagnostics ==
    /\ InitMux /\ InitLdIdle /\ InitHs /\ InitBpIdle /\ InitSkIdle
    /\ InitDg
SpecDiagnostics == InitSpecDiagnostics /\ [][NextDg]_vars

\* ================================================================= claims

\* C1: whatever the order in which responses arrive, a promise that a response
\* settled was settled by the response whose header tag is the tag of its own
\* request; the tags of distinct requests differ, and every registered callback is
\* registered under the tag of the request it belongs to.
C1_DispatchByTag ==
    /\ \A r \in DOMAIN reqs :
          promise[r].byResp => promise[r].respTag = reqs[r].tag
    /\ \A r, q \in DOMAIN reqs : r # q => reqs[r].tag # reqs[q].tag
    /\ \A t \in DOMAIN _responseCallbacks : reqs[_responseCallbacks[t]].tag = t

\* Two requests were outstanding together and their responses came in reverse order.
C1_Witness ==
    /\ Len(reqs) = 2
    /\ settled = <<2, 1>>
    /\ promise[1].byResp /\ promise[1].state = "resolved"
    /\ promise[2].byResp /\ promise[2].state = "resolved"

TimedOut(r) == promise[r].value.kind = "timeout"

\* A timed-out request is rejected, not by a response, and its waiter is gone.
C2_State ==
    \A r \in DOMAIN reqs :
        TimedOut(r) =>
            /\ promise[r].state = "rejected"
            /\ ~promise[r].byResp
            /\ reqs[r].tag \notin DOMAIN _responseCallbacks

\* The step in which request r times out touches nothing but r's waiter; a
\* timed-out promise never changes again; a message dropped settles nothing.
C2_Step ==
    /\ \A r \in DOMAIN promise :
          (promise[r].state = "pending" /\ promise'[r].value.kind = "timeout") =>
              /\ socket' = socket /\ pipes' = pipes
              /\ splitterShutdown' = splitterShutdown /\ _tag' = _tag
              /\ _responseCallbacks' = Delete(_responseCallbacks, reqs[r].tag)
              /\ timers' = timers \ {r}
              /\ \A q \in DOMAIN promise : q # r => promise'[q] = promise[q]
    /\ \A r \in DOMAIN promise : TimedOut(r) => promise'[r] = promise[r]
    /\ dropped' # dropped =>
          /\ promise' = promise
          /\ _responseCallbacks' = _responseCallbacks
          /\ timers' = timers

\* C2: a timeout is local: the waiter of the request whose deadline elapsed is
\* removed and only its promise is rejected, with a timeout error; the socket, the
\* other waiters and their timers are untouched, and a response that comes late for
\* the timed-out tag is dropped and settles nothing.
C2_TimeoutLocal == [][C2_Step /\ C2_State']_vars

\* Request 1 timed out, a late response for its tag was dropped, and request 2 was
\* resolved afterwards by its own response on the still open socket.
C2_Witness ==
    /\ Len(reqs) = 2
    /\ TimedOut(1)
    /\ reqs[1].tag \in dropped
    /\ settled = <<1, 2>>
    /\ promise[2].byResp /\ promise[2].state = "resolved"
    /\ socket = "open"

\* C3: once the Usbmux socket is closed no waiter remains registered and no
\* caller is left pending.
C3_CloseCancelsWaiters ==
    socket = "destroyed" =>
        /\ DOMAIN _responseCallbacks = {}
        /\ \A r \in DOMAIN reqs : promise[r].state # "pending"

IsOK(p) == p.MessageType = "Result" /\ p.hasNumber /\ p.Number = USBMUX_RESULT_OK
IsRefused(p) ==
    p.MessageType = "Result" /\ p.hasNumber /\ p.Number = USBMUX_RESULT_CONNREFUSED

\* C4: a connect settled by a response resolves with the socket exactly when the
\* response is a Result with Number 0; Number 3 rejects with connection refused,
\* any other Result rejects with an error carrying the code, any other message
\* type rejects with unexpected data; and unless a connect has resolved (or the
\* transport itself has met an error) the splitter is not shut down and the pipes
\* are those the constructor set.
C4_ConnectResult ==
    /\ \A r \in DOMAIN reqs :
          (reqs[r].op = "connect" /\ promise[r].byResp) =>
              LET p == promise[r].resp
                  v == promise[r].value
              IN /\ (promise[r].state = "resolved") <=> IsOK(p)
                 /\ IsOK(p) => v.kind = "socket"
                 /\ IsRefused(p) => (promise[r].state = "rejected" /\ v.kind = "refused")
                 /\ (p.MessageType = "Result" /\ ~IsOK(p) /\ ~IsRefused(p)) =>
                        /\ promise[r].state = "rejected" /\ v.kind = "failed"
                        /\ v.hasCode = p.hasNumber /\ v.code = p.Number
                 /\ p.MessageType # "Result" =>
                        (promise[r].state = "rejected" /\ v.kind = "unexpected")
    /\ (~HandedOff /\ failure = "none") =>
          /\ ~splitterShutdown
          /\ pipes = {<<"socket", "decoder">>, <<"encoder", "socket">>}

\* One connect was refused, leaving the client its transport, and a later one
\* resolved with the socket.
C4_Witness ==
    /\ Len(reqs) = 2
    /\ reqs[1].op = "connect" /\ promise[1].value.kind = "refused"
    /\ reqs[2].op = "connect" /\ settled = <<1, 2>>
    /\ promise[2].state = "resolved" /\ promise[2].value.kind = "socket"
    /\ splitterShutdown

\* A response settled a promise after an earlier connect had resolved with the socket.
DispatchedAfterHandoff ==
    \E i, j \in DOMAIN settled :
        /\ i < j
        /\ reqs[settled[i]].op = "connect" /\ promise[settled[i]].state = "resolved"
        /\ promise[settled[j]].byResp

\* C5: once connect has resolved with the socket, the splitter is shut down, the
\* socket no longer feeds the decoder, and nothing the device sends afterwards is
\* parsed by the decoder.
C5_HandoffDetaches ==
    HandedOff => (splitterShutdown /\ ~DecoderFed /\ ~DispatchedAfterHandoff)

\* C6: every StartService written on a lockdown connection is written after a
\* StartSession on that connection has succeeded.
C6_StartServiceAfterSession ==
    \A i \in DOMAIN writes : writes[i].req = "StartService" => writes[i].sess

\* C7: once StartSession has returned EnableSessionSSL = true (and the TLS
\* handshake has not failed), every request is written to the TLS transport and
\* none to the plain socket.
C7_TLSAfterSessionSSL ==
    \A i \in DOMAIN writes :
        (writes[i].ssl /\ ~writes[i].failed) => writes[i].via = "tls"

\* C8: a lockdown connection has at most one sendAndReceive awaiting its reply.
C8_OneInFlight == Cardinality(awaiting) <= 1

\* C9: with a pair record that lacks one of the four fields, tryUpgradeToTLS
\* returns normally, sends no StartSession and leaves the connection plain.
C9_IncompleteRecordReturns ==
    (pairRecord.kind = "record" /\ pairRecord.fields # Fields /\ upPc = "done") =>
        /\ upResult = "returned"
        /\ ~_isTLS
        /\ \A i \in DOMAIN writes : writes[i].req # "StartSession"

\* C10: after a failed TLS handshake _isTLS stays false and no TLS transport is
\* set, sendAndReceive and getSocket use the plain transport, every request
\* written since went to the plain socket, _tlsUpgrade of an auto-secured service
\* is resolved, not rejected, and createLockdownServiceByUDID does not throw.
C10_TLSFailureStaysPlain ==
    /\ tlsFailed =>
          /\ ~_isTLS /\ ~_plistAfterTLS
          /\ ActiveVia = "plain" /\ getSocket = "plain"
          /\ upResult = "threw"
          /\ autoSecure => _tlsUpgrade = "resolved"
    /\ \A i \in DOMAIN writes : writes[i].failed => writes[i].via = "plain"
    /\ _tlsUpgrade # "rejected"
    /\ factory # "threw"

\* The handshake failed on an auto-secured service, the factory returned it, and a
\* request was then written to the plain socket.
C10_Witness ==
    /\ tlsFailed /\ autoSecure
    /\ factory = "returned"
    /\ \E i \in DOMAIN writes : writes[i].failed /\ writes[i].via = "plain"

\* ------------------------------------------------------------- Handshake
IsPerformWrite(w) == w.by = "perform"
PerformWrites == SelectSeq(hsWrites, IsPerformWrite)

\* Steps 1 to 9 as the specification lists them.
HandshakeSteps ==
    << [kind |-> "MAGIC"],
       [kind |-> "SETTINGS", stream |-> 0,
        settings |-> {<<"MAX_CONCURRENT_STREAMS", 100>>, <<"INITIAL_WINDOW_SIZE", 1048576>>},
        flags |-> {}],
       [kind |-> "WINDOW_UPDATE", stream |-> 0, increment |-> 983041],
       [kind |-> "HEADERS", stream |-> 1, block |-> "", flags |-> {"END_HEADERS"}],
       [kind |-> "DATA", stream |-> 1, flags |-> {},
        message |-> [flags |-> 1, id |-> 0, body |-> "{}"]],
       [kind |-> "DATA", stream |-> 1, flags |-> {},
        message |-> [flags |-> 513, id |-> 0, body |-> "null"]],
       [kind |-> "HEADERS", stream |-> 3, block |-> "", flags |-> {"END_HEADERS"}],
       [kind |-> "DATA", stream |-> 3, flags |-> {},
        message |-> [flags |-> 4194305, id |-> 0, body |-> "null"]],
       [kind |-> "SETTINGS", stream |-> 0, settings |-> {}, flags |-> {"ACK"}] >>

\* C11: what perform has written is at every moment a beginning of steps 1 to 9
\* (the preface and eight frames, with the listed streams, flags and values),
\* all nine once it has returned, and perform issues a write only when its
\* previous write has completed: the only write of perform that can be awaiting
\* its callback is the last one it issued.
C11_HandshakeOrder ==
    /\ Len(PerformWrites) <= Len(HandshakeSteps)
    /\ \A k \in 1..Len(PerformWrites) : PerformWrites[k].frame = HandshakeSteps[k]
    /\ hsPc = 10 => Len(PerformWrites) = 9
    /\ \A i \in inFlight :
          hsWrites[i].by = "perform"
              => \A j \in (i + 1)..Len(hsWrites) : hsWrites[j].by # "perform"

\* C11 witness: perform has returned after its nine writes, with a request of
\* an outside caller written in between.
C11_Witness ==
    /\ hsPc = 10
    /\ Len(PerformWrites) = 9
    /\ \E i \in 1..Len(hsWrites) : hsWrites[i].by = "caller" /\ ~hsWrites[i].after

\* C12: both counters are 0 in a new Handshake; the ROOT (1) counter is 1 exactly
\* from the completion of the step-6 write on, the REPLY (3) counter is 1 exactly
\* from the completion of the step-8 write on, and neither takes another value;
\* so both are 1 when perform has returned.
C12_Counters ==
    /\ DOMAIN nextMessageId = {1, 3}
    /\ hsPc = 0 => nextMessageId[1] = 0 /\ nextMessageId[3] = 0
    /\ nextMessageId[1] = IF hsPc >= 7 THEN 1 ELSE 0
    /\ nextMessageId[3] = IF hsPc >= 9 THEN 1 ELSE 0
    /\ hsPc = 10 => nextMessageId[1] = 1 /\ nextMessageId[3] = 1

\* C12 witness: perform has returned and an outside sendRequest has completed too.
C12_Witness ==
    /\ hsPc = 10
    /\ sends > 0
    /\ inFlight = {}

\* C13: the requests sent with sendRequest after the handshake go out on ROOT
\* with flags ALWAYS_SET, and of any two of them the later carries the larger id.
C13_RequestIdsIncrease ==
    \A i, j \in 1..Len(hsWrites) :
        (/\ hsWrites[i].by = "caller" /\ hsWrites[i].after
         /\ hsWrites[j].by = "caller" /\ hsWrites[j].after
         /\ i < j)
            => /\ hsWrites[i].frame.stream = 1 /\ hsWrites[j].frame.stream = 1
               /\ hsWrites[i].frame.message.flags = 1 /\ hsWrites[j].frame.message.flags = 1
               /\ hsWrites[i].frame.message.id < hsWrites[j].frame.message.id

\* ---------------------------------------------------- BinaryPlistCreator
\* Reading a buffer: a big-endian number, and the fields of the trailer.
RECURSIVE FromBE(_)
FromBE(bytes) ==
    IF bytes = <<>> THEN 0
    ELSE 256 * FromBE(SubSeq(bytes, 1, Len(bytes) - 1)) + bytes[Len(bytes)]
Trailer(buf) == SubSeq(buf, Len(buf) - 31, Len(buf))
OffsetSizeOf(buf) == Trailer(buf)[7]
RefSizeOf(buf) == Trailer(buf)[8]
NumObjectsOf(buf) == FromBE(SubSeq(Trailer(buf), 9, 16))
TopObjectOf(buf) == FromBE(SubSeq(Trailer(buf), 17, 24))
OffsetTableOffsetOf(buf) == FromBE(SubSeq(Trailer(buf), 25, 32))
\* Entry i (from 0) of the offset table.
OffsetEntry(buf, i) ==
    FromBE(SubSeq(buf, OffsetTableOffsetOf(buf) + i * OffsetSizeOf(buf) + 1,
                       OffsetTableOffsetOf(buf) + (i + 1) * OffsetSizeOf(buf)))
\* The smallest of 1, 2, 4, 8 bytes that holds a value (all values here are below 2^32).
MinBytes(v) == IF v <= 255 THEN 1 ELSE IF v <= 65535 THEN 2 ELSE 4
\* n in w bytes of big-endian two's complement.
TwosComplement(n, w) ==
    IF n >= 0 THEN BE(n, w)
    ELSE [i \in 1..w |-> 255 - BE(-(n + 1), w)[i]]
\* The record of the root when the root is the only object.
RootRecord(buf) == SubSeq(buf, 9, OffsetTableOffsetOf(buf))

\* C14: the integer encoding is injective: no other integer gives the bytes
\* that the integer just encoded gave.
C14_IntegerEncodingInjective ==
    (bpOut.done /\ bpValue.root.t = "number")
        => \A n \in IntSamples :
              create(Input(Num(n), <<>>)) = bpOut.buffer => n = bpValue.root.n

\* C15: the buffer for { "a": 1, "b": [true, null] } begins with "bplist00" and
\* its trailer reports 6 objects, top object 0, ref_size 1 and offset_size 1.
C15_ExampleTrailer ==
    (bpOut.done /\ bpValue = ExampleInput)
        => /\ SubSeq(bpOut.buffer, 1, 8) = <<98, 112, 108, 105, 115, 116, 48, 48>>
           /\ NumObjectsOf(bpOut.buffer) = 6
           /\ TopObjectOf(bpOut.buffer) = 0
           /\ RefSizeOf(bpOut.buffer) = 1
           /\ OffsetSizeOf(bpOut.buffer) = 1

\* C16: the records follow the 8-byte header one after the other in object-id
\* order, entry i of the offset table is the offset of record i from the start
\* of the file, and offset_table_offset is 8 plus the length of all records.
C16_OffsetTable ==
    bpOut.done
        => LET buf == bpOut.buffer
               records == bpOut.objectData
               total == Len(Concat(records))
           IN  /\ SubSeq(buf, 9, 8 + total) = Concat(records)
               /\ OffsetTableOffsetOf(buf) = 8 + total
               /\ \A i \in 1..Len(records) :
                     OffsetEntry(buf, i - 1) = 8 + Len(Concat(SubSeq(records, 1, i - 1)))

\* C17: offset_size is 1, 2, 4 or 8 and is at least the number of bytes needed
\* for the size of the file before the offset table.
C17_OffsetSize ==
    bpOut.done
        => /\ OffsetSizeOf(bpOut.buffer) \in {1, 2, 4, 8}
           /\ OffsetSizeOf(bpOut.buffer) >= MinBytes(OffsetTableOffsetOf(bpOut.buffer))

\* The references of a container record: the bytes after its header, in refSize pieces.
RefsOf(record, count, refSize) ==
    [k \in 1..count |->
        FromBE(SubSeq(record, Len(record) - (count - k + 1) * refSize + 1,
                              Len(record) - (count - k) * refSize))]
\* What a container refers to, in the order of its references.
Referenced(node) ==
    IF node.t = "array" THEN node.items
    ELSE IF node.t = "dict" THEN OwnKeys(node) \o OwnValues(node)
    ELSE <<>>

\* C18: ref_size is the smallest of 1, 2, 4, 8 that holds num_objects - 1;
\* every array and dictionary record holds, after its header, one reference of
\* that width per element (keys then values for a dictionary), each the id of
\* the element it stands for and below num_objects; top_object_id is 0, the
\* root is object 0, and num_objects is the length of the object table.
C18_References ==
    bpOut.done
        => LET buf == bpOut.buffer
               table == bpOut._objectTable
               records == bpOut.objectData
               n == NumObjectsOf(buf)
               rs == RefSizeOf(buf)
           IN  /\ rs = MinBytes(n - 1)
               /\ TopObjectOf(buf) = 0
               /\ table[1] = bpValue.root
               /\ n = Len(table)
               /\ \A i \in 1..Len(table) :
                     (table[i].t = "ref" /\ bpValue.heap[table[i].a].t \in {"array", "dict"})
                         => LET elems == Referenced(bpValue.heap[table[i].a])
                                refs == RefsOf(records[i], Len(elems), rs)
                            IN  /\ Len(records[i]) > Len(elems) * rs
                                /\ \A k \in 1..Len(elems) :
                                      /\ refs[k] < n
                                      /\ table[refs[k] + 1] = elems[k]

\* C18 witness: a buffer of more than 256 objects has been created, with
\* two-byte references in its root array.
C18_Witness ==
    /\ bpOut.done
    /\ NumObjectsOf(bpOut.buffer) > 256
    /\ RefSizeOf(bpOut.buffer) = 2
    /\ IsArray(bpValue.root, bpValue.heap)

\* C19: a string with a code unit above 0x7F is written with tag 0x6L (L the
\* number of code units, nibble 0xF from 15 up) followed by its code units high
\* byte first; a string without one, with tag 0x5L followed by one byte per
\* character.
C19_StringEncoding ==
    (bpOut.done /\ bpValue.root.t = "string")
        => LET units == bpValue.root.units
               L == Len(units)
               record == RootRecord(bpOut.buffer)
               nibble == IF L < 15 THEN L ELSE 15
           IN  IF \E i \in 1..L : units[i] > 127
               THEN /\ record[1] = 96 + nibble
                    /\ SubSeq(record, Len(record) - 2 * L + 1, Len(record))
                          = Concat([i \in 1..L |-> <<units[i] \div 256, units[i] % 256>>])
               ELSE /\ record[1] = 80 + nibble
                    /\ SubSeq(record, Len(record) - L + 1, Len(record)) = units

\* C20: an integer given as a number is written as tag 0x1k and 2^k bytes of
\* big-endian two's complement, 2^k being the smallest of 1, 2, 4, 8 that holds
\* it with its sign; a bigint is written with tag 0x13 and 8 bytes.
C20_IntegerWidth ==
    (bpOut.done /\ bpValue.root.t \in {"number", "wide", "bigint"})
        => LET record == RootRecord(bpOut.buffer)
               v == bpValue.root
           IN  IF v.t = "number"
               THEN LET k == IF v.n >= -128 /\ v.n <= 127 THEN 0
                             ELSE IF v.n >= -32768 /\ v.n <= 32767 THEN 1
                             ELSE 2
                    IN  record = <<16 + k>> \o TwosComplement(v.n, 2 ^ k)
               ELSE record = <<19>> \o Concat([i \in 1..4 |-> BE(v.limbs[i], 2)])

\* The TCP endpoint the options and the environment name, if they name one.
GivenHostPort ==
    LET o == skOpts @@ Defaults(skOpts, skEnv)
    IN  [kind |-> "tcp", path |-> <<>>, host |-> o.socketHost, port |-> o.socketPort]

ExplicitHostPort ==
    /\ Falsy(skOpts, "socketPath")
    /\ ~Falsy(skOpts, "socketHost") \/ ~Falsy(skOpts, "socketPort")

EnvHostPort ==
    /\ \A k \in {"socketPath", "socketPort", "socketHost"} : Falsy(skOpts, k)
    /\ skEnv = [set |-> TRUE, value |-> RemoteHost \o <<":">> \o RemotePort]

\* C21: once getDefaultSocket has chosen, an explicit host/port, or a HOST:PORT
\* value of USBMUXD_SOCKET_ADDRESS when no argument is given, is the endpoint
\* connected to, also when /var/run/usbmuxd exists; and with any explicit
\* argument the choice does not depend on the environment variable.
C21_Precedence ==
    skPc \notin {"idle", "called"} =>
        /\ (ExplicitHostPort \/ EnvHostPort) =>
               (skPc # "threw" /\ skSocket = GivenHostPort)
        /\ EnvHostPort => (skSocket.host = RemoteHost /\ skSocket.port = 27016)
        /\ (\E k \in {"socketPath", "socketPort", "socketHost"} : ~Falsy(skOpts, k)) =>
               \A e \in EnvInputs :
                   CreateConnection(skOpts, e, skExists, skPlatform)
                       = CreateConnection(skOpts, skEnv, skExists, skPlatform)

\* C22: the PortNumber connect sends for a port in 0..65535 is in 0..65535, has
\* the port's two bytes exchanged, swaps back to the port, and is 0x7EF2 for
\* port 62078 (0xF27E).
C22_ByteSwap ==
    \A v \in sent :
        /\ v \in 0..65535
        /\ v % 256 = port \div 256
        /\ v \div 256 = port % 256
        /\ byteSwap16(v) = port
        /\ port = 62078 => v = 32498

C22_Witness == port = 62078 /\ sent = {32498}

\* C23: once the transport has met a codec or framing error or a socket error, no
\* request is still waiting (every outstanding waiter has failed) and the socket
\* is closed.
C23_Poisoning ==
    failure # "none" =>
        /\ \A r \in DOMAIN promise : promise[r].state # "pending"
        /\ DOMAIN _responseCallbacks = {}
        /\ socket # "open"

\* The decoder has emitted a message (dispatched to a waiter, or dropped).
Decoded ==
    \/ dropped # {}
    \/ \E r \in DOMAIN promise : promise[r].byResp

\* C24: while the client has its transport (no handoff, no failure), the messages
\* the decoder has emitted came through the splitter only: the socket is piped
\* into the splitter, the splitter into the decoder, and the socket is not piped
\* into the decoder directly (so no frame reaches the decoder that the splitter's
\* maxFrameLength would have refused).
C24_FramedInbound ==
    (Decoded /\ ~HandedOff /\ failure = "none") =>
        /\ <<"socket", "splitter">> \in pipes
        /\ <<"splitter", "decoder">> \in pipes
        /\ <<"socket", "decoder">> \notin pipes

Validated(op, p, pr) ==
    CASE op = "readBUID" ->
            IF p.BUID THEN pr.state = "resolved" /\ pr.value.kind = "BUID"
            ELSE pr.state = "rejected" /\ pr.value.kind = "unexpected"
      [] op = "listDevices" ->
            IF p.DeviceList THEN pr.state = "resolved" /\ pr.value.kind = "DeviceList"
            ELSE pr.state = "rejected" /\ pr.value.kind = "unexpected"
      [] op = "readPairRecord" ->
            p.PairRecordData = "absent" =>
                (pr.state = "resolved" /\ pr.value.kind = "null")
      [] OTHER -> TRUE

C26_Step ==
    \A t \in Tags, p \in Payloads :
        (/\ t \in DOMAIN _responseCallbacks
         /\ _handleData([tag |-> t, payload |-> p])) =>
            LET r == _responseCallbacks[t]
            IN  /\ reqs[r].tag = t
                /\ promise[r].state = "pending"
                /\ promise'[r].byResp /\ promise'[r].respTag = t
                /\ Validated(reqs[r].op, p, promise'[r])
                /\ \A q \in DOMAIN promise : q # r => promise'[q] = promise[q]
                /\ _responseCallbacks' = Delete(_responseCallbacks, t)
                /\ timers' = timers \ {r}

\* C26: a response is validated by the callback of the request whose tag it
\* carries: readBUID fails with unexpected data unless the payload has BUID,
\* listDevices returns DeviceList or fails with unexpected data, readPairRecord
\* returns null when PairRecordData is absent; the step settles that request
\* only, removes that waiter only and leaves every other request, waiter and
\* timer as it was.
C26_Validation == [][C26_Step]_vars

\* readBUID was rejected for a payload without BUID while a later request is
\* still waiting with its waiter and timer.
C26_Witness ==
    /\ Len(reqs) = 2
    /\ reqs[1].op = "readBUID"
    /\ promise[1].state = "rejected" /\ promise[1].byResp
    /\ promise[1].value.kind = "unexpected"
    /\ reqs[2].op = "listDevices"
    /\ promise[2].state = "pending"
    /\ DOMAIN _responseCallbacks = {reqs[2].tag}
    /\ timers = {2}

\* C27: once the function that created a Usbmux client has ended, by return or by
\* throw, that client is closed or handed off as the device stream: so for
\* getPairRecord, for createLockdownServiceByUDID and for startCoreDeviceProxy.
C27_Released ==
    /\ upPc # "getPairRecord" => muxClients.getPairRecord # "open"
    /\ factory # "listing" => muxClients.factory # "open"
    /\ proxyPc \in {"failed", "noPort", "returned"} => muxClients.proxy # "open"

\* C28: startSession returns exactly when the reply has Request 'StartSession'
\* and a non-empty SessionID, and then with that SessionID and with
\* enableSessionSSL the truthiness of EnableSessionSSL; for any other reply it
\* throws, and then _isTLS is false, the plain transport is the active one and no
\* TLS handshake has been started.
C28_StartSession ==
    sess.state \in {"returned", "threw"} =>
        LET res == sess.reply
        IN  /\ sess.state = "returned" <=>
                   (res.Request = "StartSession" /\ res.SessionID \notin {"absent", "empty"})
            /\ sess.state = "returned" =>
                   /\ sess.sessionID = res.SessionID
                   /\ sess.enableSessionSSL <=> res.EnableSessionSSL = "true"
            /\ sess.state = "threw" =>
                   /\ ~_isTLS /\ ~_plistAfterTLS
                   /\ ActiveVia = "plain" /\ getSocket = "plain"
                   /\ handshake = "none"
                   /\ upResult = "threw"

\* A reply with a SessionID and EnableSessionSSL but another Request was refused.
C28_Witness ==
    /\ sess.state = "threw"
    /\ sess.reply.Request = "GetValue"
    /\ sess.reply.SessionID = "id"
    /\ sess.reply.EnableSessionSSL = "true"
    /\ upPc = "done"

C29_State ==
    /\ _isTLS =>
          /\ sess.state = "returned" /\ sess.reply.EnableSessionSSL = "true"
          /\ handshake = "completed"
          /\ _plistAfterTLS
    /\ ActiveVia = "tls" <=> _isTLS
    /\ getSocket = "tls" <=> _isTLS
    /\ \A i \in DOMAIN writes : writes[i].via = "tls" <=> writes[i].isTLS
    /\ \A i \in DOMAIN closes : closes[i].via = "tls" <=> closes[i].isTLS
    /\ (sess.state = "returned" /\ sess.reply.EnableSessionSSL # "true") =>
          (~_isTLS /\ handshake = "none" /\ ActiveVia = "plain")

\* C29: _isTLS is true only after StartSession returned EnableSessionSSL = true and
\* the handshake on the lockdown socket completed, and then the TLS plist
\* transport exists; once true it stays true; sendAndReceive, getSocket and close
\* use the TLS transport exactly when _isTLS is true; and after EnableSessionSSL =
\* false the connection stays plain with no handshake attempted.
C29_SecureState == C29_State /\ [][(_isTLS => _isTLS') /\ C29_State']_vars

\* On an upgraded service a request was written and close() was called, both on
\* the TLS transport.
C29_Witness ==
    /\ _isTLS
    /\ \E i \in DOMAIN writes : writes[i].via = "tls" /\ writes[i].who = "caller"
    /\ \E i \in DOMAIN closes : closes[i].via = "tls"

\* What startCoreDeviceProxy does with a Port in the reply, in order.
ProxySteps ==
    <<"StartService", "Port", "close", "createUsbmux", "readPairRecord", "connect",
      "upgradeSocketToTLS", "return">>

\* log is a prefix of steps, or such a prefix followed by a throw.
PrefixOrThrow(log, steps) ==
    \E k \in 0..Len(steps) :
        /\ Len(log) \in {k, k + 1}
        /\ SubSeq(log, 1, k) = SubSeq(steps, 1, k)
        /\ Len(log) = k + 1 => log[k + 1] = "throw"

\* proxyLog without the wait for _tlsUpgrade.
ProxyDone ==
    IF Len(proxyLog) > 0 /\ proxyLog[1] = "awaitUpgrade" THEN Tail(proxyLog) ELSE proxyLog

Did(e) == \E i \in DOMAIN proxyLog : proxyLog[i] = e

\* C30: startCoreDeviceProxy sends StartService only once a pending _tlsUpgrade has
\* settled; it closes the lockdown client after the reply and before a muxer
\* client is created; without a Port it throws and creates no muxer client; with
\* one it reads the pair record, throws before connecting when the record lacks
\* certificate or key, connects on the new client, and returns only after the
\* TLS handshake on the connected socket has completed.
C30_ProxyOrder ==
    /\ Did("StartService") => _tlsUpgrade # "pending"
    /\ \/ PrefixOrThrow(ProxyDone, ProxySteps)
       \/ ProxyDone = <<"StartService", "noPort", "close", "throw">>
    /\ Did("noPort") => (muxClients.proxy = "none" /\ ~Did("createUsbmux"))
    /\ muxClients.proxy # "none" => (closed /\ Len(closes) > 0)
    /\ Did("connect") =>
          /\ proxyRecord.kind = "record"
          /\ {"HostCertificate", "HostPrivateKey"} \subseteq proxyRecord.fields
          /\ muxClients.proxy \in {"open", "handedOff"}
    /\ proxyPc = "returned" <=> Did("return")
    /\ Did("return") => muxClients.proxy = "handedOff"

\* The proxy waited for the automatic upgrade and returned the TLS socket.
C30_Witness ==
    /\ proxyPc = "returned"
    /\ proxyLog[1] = "awaitUpgrade"
    /\ autoSecure

\* What a length header counts: the bytes of a Buffer, the characters or code
\* units of a string, the elements of an array, the entries of a dictionary.
Counted(value, heap) ==
    value.t = "string"
        \/ (value.t = "ref" /\ heap[value.a].t \in {"data", "array", "dict"})
CountOf(value, heap) ==
    IF value.t = "string" THEN Len(value.units)
    ELSE IF heap[value.a].t = "data" THEN Len(heap[value.a].bytes)
    ELSE IF heap[value.a].t = "array" THEN Len(heap[value.a].items)
    ELSE Len(heap[value.a].keys)
\* The bytes that follow the header for each thing counted.
BytesPerCounted(value, heap, refSize) ==
    IF value.t = "string"
        THEN (IF \E k \in 1..Len(value.units) : value.units[k] > 127 THEN 2 ELSE 1)
    ELSE IF heap[value.a].t = "data" THEN 1
    ELSE IF heap[value.a].t = "array" THEN refSize
    ELSE 2 * refSize
TypeNibble(value, heap) ==
    IF value.t = "string"
        THEN (IF \E k \in 1..Len(value.units) : value.units[k] > 127 THEN 6 ELSE 5)
    ELSE IF heap[value.a].t = "data" THEN 4
    ELSE IF heap[value.a].t = "array" THEN 10
    ELSE 13

\* C31: in the record of a Buffer, a string, an array or a dictionary, a count
\* below 15 is the low nibble of the tag and the counted bytes follow at once;
\* a count of 15 or more leaves 0xF in the nibble, followed by an integer
\* header of one byte below 256, two bytes below 65536 and four bytes
\* otherwise that carries the count, and then by the counted bytes.
C31_LengthHeaders ==
    bpOut.done
        => \A i \in 1..Len(bpOut._objectTable) :
              Counted(bpOut._objectTable[i], bpValue.heap)
                  => LET rec == bpOut.objectData[i]
                         count == CountOf(bpOut._objectTable[i], bpValue.heap)
                         body == count * BytesPerCounted(bpOut._objectTable[i], bpValue.heap,
                                                         RefSizeOf(bpOut.buffer))
                         e == IF count < 256 THEN 0 ELSE IF count < 65536 THEN 1 ELSE 2
                     IN  /\ rec[1] \div 16 = TypeNibble(bpOut._objectTable[i], bpValue.heap)
                         /\ count < 15
                               => /\ rec[1] % 16 = count
                                  /\ Len(rec) = 1 + body
                         /\ count >= 15
                               => /\ rec[1] % 16 = 15
                                  /\ rec[2] = 16 + e
                                  /\ FromBE(SubSeq(rec, 3, 2 + 2^e)) = count
                                  /\ Len(rec) = 2 + 2^e + body

\* C31 witness: a Buffer of 65536 bytes or more has been written, its count
\* in a four-byte integer header.
C31_Witness ==
    /\ bpOut.done
    /\ IsBuffer(bpValue.root, bpValue.heap)
    /\ Len(bpValue.heap[bpValue.root.a].bytes) >= 65536
    /\ bpOut.objectData[1][2] = 18

\* C32: the record of a dictionary of L entries is its header, L key
\* references and then L value references, both in the order the entries were
\* added, the i-th key reference and the i-th value reference being those of
\* one entry; the record of an array is its header and one reference per
\* element in element order.
C32_RecordLayout ==
    bpOut.done
        => \A i \in 1..Len(bpOut._objectTable) :
              LET v == bpOut._objectTable[i]
                  rs == RefSizeOf(bpOut.buffer)
              IN  /\ IsDict(v, bpValue.heap)
                        => LET d == bpValue.heap[v.a]
                               L == Len(d.keys)
                               refs == RefsOf(bpOut.objectData[i], 2 * L, rs)
                           IN  \A k \in 1..L :
                                  /\ bpOut._objectTable[refs[k] + 1] = d.keys[k]
                                  /\ bpOut._objectTable[refs[L + k] + 1] = d.vals[k]
                  /\ IsArray(v, bpValue.heap)
                        => LET items == bpValue.heap[v.a].items
                               refs == RefsOf(bpOut.objectData[i], Len(items), rs)
                           IN  \A k \in 1..Len(items) :
                                  bpOut._objectTable[refs[k] + 1] = items[k]

\* What a value holds directly: the elements of an array, and each key of a
\* dictionary followed by its value.
Children(value, heap) ==
    IF IsArray(value, heap) THEN heap[value.a].items
    ELSE IF IsDict(value, heap)
        THEN LET d == heap[value.a]
             IN  [k \in 1..(2 * Len(d.keys)) |->
                     IF k % 2 = 1 THEN OwnKeys(d)[(k + 1) \div 2] ELSE OwnValues(d)[k \div 2]]
    ELSE <<>>
\* The nodes left once every node without an edge to a node left is removed,
\* again and again: none exactly when the graph has no cycle.
RECURSIVE Peel(_, _)
Peel(nodes, edges) ==
    LET sinks == {n \in nodes : edges[n] \cap nodes = {}}
    IN  IF sinks = {} THEN nodes ELSE Peel(nodes \ sinks, edges)
\* The input has no container that holds itself, directly or not.
Acyclic(in) ==
    Peel(1..Len(in.heap),
         [a \in 1..Len(in.heap) |->
             LET held == Children(Ref(a), in.heap)
             IN  {held[k].a : k \in {k \in 1..Len(held) : held[k].t = "ref"}}]) = {}
\* The depth-first pre-order walk of a value of an input without cycles, every
\* occurrence of a value included.
RECURSIVE PreOrder(_, _)
PreOrder(value, heap) ==
    LET held == Children(value, heap)
    IN  <<value>> \o Concat([k \in 1..Len(held) |-> PreOrder(held[k], heap)])
\* Where a value occurs first in a walk.
FirstAt(walk, value) ==
    CHOOSE i \in 1..Len(walk) :
        /\ SameValueZero(walk[i], value)
        /\ \A j \in 1..(i - 1) : ~SameValueZero(walk[j], value)
\* The values an input holds, the root included.
RECURSIVE Reach(_, _)
Reach(found, heap) ==
    LET more == found \cup UNION {{Children(v, heap)[k] : k \in 1..Len(Children(v, heap))} :
                                     v \in {w \in found : w.t = "ref"}}
    IN  IF more = found THEN found ELSE Reach(more, heap)
\* The ids that the record of object id (from 0) refers to.
EncodedRefs(id) ==
    LET v == bpOut._objectTable[id + 1]
        rec == bpOut.objectData[id + 1]
        count == IF IsArray(v, bpValue.heap) THEN CountOf(v, bpValue.heap)
                 ELSE IF IsDict(v, bpValue.heap) THEN 2 * CountOf(v, bpValue.heap)
                 ELSE 0
        refs == RefsOf(rec, count, RefSizeOf(bpOut.buffer))
    IN  {refs[k] : k \in 1..count}

\* C33: the object table lists the values in depth-first pre-order from the
\* root, which has id 0, each key of a dictionary immediately before its value
\* at their first occurrence; every value of the input (arrays, dictionaries
\* and Buffers by identity, strings, numbers, booleans and null by value) has
\* exactly one entry; and for an input without cycles the references of the
\* encoded records form no cycle.
C33_ObjectTable ==
    bpOut.done
        => LET table == bpOut._objectTable
               n == Len(table)
           IN  /\ table[1] = bpValue.root
               /\ \A i, j \in 1..n : SameValueZero(table[i], table[j]) => i = j
               /\ \A v \in Reach({bpValue.root}, bpValue.heap) :
                     \E i \in 1..n : SameValueZero(table[i], v)
               /\ Acyclic(bpValue)
                     => LET walk == PreOrder(bpValue.root, bpValue.heap)
                            at == [i \in 1..n |-> FirstAt(walk, table[i])]
                        IN  /\ \A k \in 1..Len(walk) :
                                  \E i \in 1..n : SameValueZero(table[i], walk[k])
                            /\ \A i \in 1..(n - 1) : at[i] < at[i + 1]
                            /\ Peel(0..(n - 1), [id \in 0..(n - 1) |-> EncodedRefs(id)]) = {}

\* C33 witness: a table has been built for an input without cycles in which a
\* container occurs twice and a dictionary holds a dictionary.
C33_Witness ==
    /\ bpOut.done
    /\ Acyclic(bpValue)
    /\ Len(PreOrder(bpValue.root, bpValue.heap)) > Len(bpOut._objectTable)
    /\ \E i \in 1..Len(bpOut._objectTable) :
          /\ IsDict(bpOut._objectTable[i], bpValue.heap)
          /\ i > 1

NoRepeat(seq) == \A i, j \in 1..Len(seq) : SameValueZero(seq[i], seq[j]) => i = j

\* The traversal has returned: it entered the loop of no container twice, put
\* no value in the table twice, and built the table that create() goes on with.
CollectedOnce ==
    /\ coPc = "collected"
    /\ coStack = <<>>
    /\ NoRepeat(coLoops)
    /\ NoRepeat(coTable)
    /\ Len(coTable) = Cardinality(Reach({bpValue.root}, bpValue.heap))
    /\ coTable = _objectTable(bpValue)

\* C34: the collection of objects terminates for every finite input, one that
\* holds itself included; the loop of each container is entered at most once
\* and each distinct value is put in the table at most once.
C34_CollectionTerminates == <>[]CollectedOnce

\* C34 witness: the traversal of an input that holds itself has returned.
C34_Witness ==
    /\ coPc = "collected"
    /\ ~Acyclic(bpValue)
    /\ Len(coLoops) >= 1

\* The tags of the requests issued and not yet settled.
Outstanding ==
    {reqs[r].tag : r \in {q \in DOMAIN reqs : promise[q].state = "pending"}}

C35_State ==
    /\ DOMAIN _responseCallbacks = Outstanding
    /\ \A t \in DOMAIN _responseCallbacks : reqs[_responseCallbacks[t]].tag = t
    /\ \A i, j \in DOMAIN settled : settled[i] = settled[j] => i = j
    /\ \A r \in DOMAIN promise :
          promise[r].state # "pending" <=> \E i \in DOMAIN settled : settled[i] = r

C35_Step ==
    /\ \A r \in DOMAIN promise : promise[r].state # "pending" => promise'[r] = promise[r]
    /\ \A r \in DOMAIN promise :
          (promise[r].state = "pending" /\ promise'[r].state # "pending")
              => /\ promise'[r].byResp <=> promise'[r].value.kind # "timeout"
                 /\ promise'[r].byResp => promise'[r].respTag = reqs[r].tag
    /\ dropped' # dropped
          => /\ dropped' \cap Outstanding = {}
             /\ UNCHANGED <<_tag, _responseCallbacks, reqs, promise, settled, timers,
                            socket, pipes, splitterShutdown, failure>>

\* C35: the callback map holds exactly the tags of the requests issued and
\* not yet settled; a promise settles once, by its response or by its timeout
\* and never by both; a message whose tag is already settled, or was never
\* issued, changes nothing.
C35_WaiterMap == []C35_State /\ [][C35_Step]_vars

\* C35 witness: the first request was resolved by its response and a second
\* message with its tag was dropped, while the second request is still waiting.
C35_Witness ==
    /\ Len(reqs) = 2
    /\ promise[1].state = "resolved" /\ promise[1].byResp
    /\ dropped = {reqs[1].tag}
    /\ promise[2].state = "pending"
    /\ DOMAIN _responseCallbacks = {reqs[2].tag}

\* perform has rejected on the error of the write of step hsPc.
C36_State ==
    hsFailed
        => /\ hsPc \in 1..9
           /\ Len(PerformWrites) = hsPc
           /\ nextMessageId[ROOT_CHANNEL] = (IF hsPc > 6 THEN 1 ELSE 0)
           /\ nextMessageId[REPLY_CHANNEL] = (IF hsPc > 8 THEN 1 ELSE 0)
C36_Step ==
    hsFailed
        => /\ hsFailed'
           /\ hsPc' = hsPc
           /\ PerformWrites' = PerformWrites
           /\ nextMessageId' = nextMessageId

\* C36: when the socket reports an error for the write of step k of perform,
\* perform rejects and never resumes, no later step is ever written, and a
\* counter has been advanced only if the write of its DATA frame succeeded:
\* the ROOT counter is 0 after a failure at or before step 6, the REPLY
\* counter is 0 after a failure at or before step 8.
C36_WriteFailure == []C36_State /\ [][C36_Step]_vars

\* C36 witness: the write of step 6 failed after an outside request was
\* written, and a further outside request was written after the failure.
C36_Witness ==
    /\ hsFailed
    /\ hsPc = 6
    /\ nextMessageId[ROOT_CHANNEL] = 0
    /\ Len(hsWrites) = 8
    /\ hsWrites[Len(hsWrites)].by = "caller"
    /\ inFlight = {}

\* C37: no request of another caller is written between two writes of
\* perform, so that the nine writes of the handshake are contiguous, and no
\* such request is written after perform's first write and before the
\* SETTINGS ACK of step 9.
C37_HandshakeContiguous ==
    /\ \A i, j, k \in 1..Len(hsWrites) :
          (i < j /\ j < k /\ hsWrites[i].by = "perform" /\ hsWrites[k].by = "perform")
              => hsWrites[j].by = "perform"
    /\ \A j \in 1..Len(hsWrites) :
          (hsWrites[j].by = "caller" /\ \E i \in 1..(j - 1) : hsWrites[i].by = "perform")
              => \E i \in 1..(j - 1) :
                    /\ hsWrites[i].by = "perform"
                    /\ hsWrites[i].frame = PerformFrame(9, nextMessageId)

\* The requests of operations (not check-ins) in the log.
IsOpRequest(e) == e.dir = "sent" /\ e.what # RSDCheckin
\* Call k has sent the request of its operation, on some connection.
SentOpRequest(k) ==
    \E c \in DOMAIN dgLog : \E j \in DOMAIN dgLog[c] :
        IsOpRequest(dgLog[c][j]) /\ dgLog[c][j].call = k

\* C38: every request of an operation is sent on the connection that its own
\* call opened and no other call uses, after the RSDCheckin was sent on that
\* connection and its reply was received there; a call whose connection or
\* check-in was rejected has sent no request, and the error is the outcome its
\* caller gets.
C38_CheckinFirst ==
    /\ Len(dgLog) = dgConns
    /\ \A c \in DOMAIN dgLog : \A j \in DOMAIN dgLog[c] :
          IsOpRequest(dgLog[c][j])
              => LET k == dgLog[c][j].call
                 IN  /\ dgLog[c][j].what = dgCalls[k].op
                     /\ c = dgCalls[k].conn
                     /\ \A q \in DOMAIN dgCalls : q # k => dgCalls[q].conn # c
                     /\ \A i \in DOMAIN dgLog[c] : dgLog[c][i].call = k
                     /\ j = 3
                     /\ dgLog[c][1] = Sent(k, RSDCheckin)
                     /\ dgLog[c][2].dir = "received"
                     /\ \A i \in DOMAIN dgLog[c] : IsOpRequest(dgLog[c][i]) => i = j
    /\ \A k \in DOMAIN dgCalls :
          /\ dgCalls[k].pc \in {"connecting", "checkin"} => ~SentOpRequest(k)
          /\ (dgCalls[k].pc = "done" /\ dgCalls[k].result.what \in {"connect", "checkin"})
                => dgCalls[k].result.threw /\ ~SentOpRequest(k)
          /\ dgCalls[k].result = Threw("connect")
                => \A c \in DOMAIN dgLog : \A j \in DOMAIN dgLog[c] : dgLog[c][j].call # k

\* C38 witness: one operation threw on a rejected check-in without sending a
\* request, another checked in on its own connection, sent its request there
\* and returned.
C38_Witness ==
    /\ Len(dgCalls) = 2
    /\ dgCalls[1].pc = "done" /\ dgCalls[1].result = Threw("checkin")
    /\ dgCalls[2].pc = "done" /\ ~dgCalls[2].result.threw
    /\ dgCalls[2].conn # dgCalls[1].conn
    /\ SentOpRequest(2)
    /\ Len(dgLog[dgCalls[2].conn]) = 4

====
